---------------------------- MODULE Spec2Model ----------------------------
(* Model of the knowledge-base synchronisation engine of rpg-rag            *)
(* (src/app/kb/update.py): one call of update_campaign_kb is one database   *)
(* transaction that walks the enabled sources of a campaign, classifies the *)
(* files it finds against source_files, materialises documents and chunks,  *)
(* soft-deletes vanished files and finalises the ingest_runs row.           *)
EXTENDS Integers, Sequences, FiniteSets

VARIABLES
  db,        \* the committed database: one record, a field per table
  fs,        \* the directory trees below the sources' root_path
  calls,     \* calls of update_campaign_kb made so far
  before,    \* the database as the latest call found it
  last_call, \* the latest call, until the files change: what was asked, what came back
  edited,    \* the filesystem changed since the last call that committed
  last_live, \* the last call that committed was not a dry run
  args,      \* the arguments of a function that is applied on its own
  result,    \* ... and what it returned
  runs       \* the calls in flight when calls overlap: per request thread, where it is

vars == <<db, fs, calls, before, last_call, edited, last_live, args, result, runs>>

-----------------------------------------------------------------------------
(* Bounds of the model.                                                     *)

\* calls of update_campaign_kb in one behaviour
MaxCalls == 2

-----------------------------------------------------------------------------
(* Values.                                                                  *)

\* Python's None / SQL NULL: for a digest column, and for a text column
None == <<>>
NullText == "NULL"

\* a byte that is not valid UTF-8, and what errors="replace" decodes it to
InvalidByte == "\\xff"
ReplacementChar == "U+FFFD"
Whitespace == {" ", "\n"}

\* _chunk_text's defaults (6000 and 300), scaled to the texts of the model
max_chars == 4
overlap == 1

\* file contents (bytes) the filesystem can hold
BytesLong == <<"k", "o", "b", "o", "l", "d">>
BytesPadded == <<" ", InvalidByte, "\n">>
Contents == {BytesLong, BytesPadded}
Mtimes == {1700000000, 1700000001}

\* the campaign of the model, and an id no campaigns row has
Campaign == "c1"
CampaignIds == {Campaign, "c-unknown"}

Sources == {"s1", "s2"}

\* A POSIX path string is modelled by the sequence of its "/"-separated
\* segments: "" is <<>>, "." is <<".">>, "d/c" is <<"d", "c">>.
EmptyStr == <<>>
PathA == <<"a.md">>
PathB == <<"b.TXT">>
PathC == <<"d", "c">>
PathBtxt == <<"b.txt">>
PathGitC == <<".git", "c.md">>

\* the paths that can exist below each source root
TreePaths(s) == IF s = "s1" THEN {PathA, PathB} ELSE {PathC}

-----------------------------------------------------------------------------
(* Sequence helpers.                                                        *)

Min(a, b) == IF a <= b THEN a ELSE b
Max(a, b) == IF a >= b THEN a ELSE b

\* q[i:j] of Python, 0-based and end-exclusive, for 0 <= i <= j <= Len(q)
Slice(q, i, j) == SubSeq(q, i + 1, j)

\* all the orders in which the members of a finite set can be enumerated
RECURSIVE Perms(_)
Perms(S) ==
  IF S = {} THEN {<<>>}
  ELSE UNION {{<<x>> \o p : p \in Perms(S \ {x})} : x \in S}

-----------------------------------------------------------------------------
(* Pure functions of update.py.                                             *)

\* hashlib.sha256 is taken to be collision free: a digest names its input
sha256_file(bytes) == <<"sha256-of-bytes", bytes>>

sha256_text(s) == <<"sha256-of-text", s>>

\* bytes.decode("utf-8", errors="replace"), as read_text does
Decode(bytes) ==
  [i \in DOMAIN bytes |-> IF bytes[i] = InvalidByte THEN ReplacementChar ELSE bytes[i]]

\* str.strip()
RECURSIVE LStrip(_)
LStrip(s) ==
  IF s # <<>> /\ Head(s) \in Whitespace THEN LStrip(Tail(s)) ELSE s

RECURSIVE RStrip(_)
RStrip(s) ==
  IF s # <<>> /\ s[Len(s)] \in Whitespace THEN RStrip(SubSeq(s, 1, Len(s) - 1)) ELSE s

Strip(s) == RStrip(LStrip(s))

\* ChunkLoop with a fault: the next window starts where the last one ended
RECURSIVE ChunkLoop_no_overlap(_, _, _, _, _)
ChunkLoop_no_overlap(s, i, out, mc, ov) ==
  IF ~(i < Len(s)) THEN out
  ELSE LET j == Min(Len(s), i + mc)
           out2 == Append(out, Slice(s, i, j))
       IN IF j >= Len(s) THEN out2
          ELSE ChunkLoop_no_overlap(s, j, out2, mc, ov)

\* the while loop of _chunk_text from position i with the chunks so far
RECURSIVE ChunkLoop(_, _, _, _, _)
ChunkLoop(s, i, out, mc, ov) ==
  IF ~(i < Len(s)) THEN out
  ELSE LET j == Min(Len(s), i + mc)
           out2 == Append(out, Slice(s, i, j))
       IN IF j >= Len(s) THEN out2
          ELSE ChunkLoop(s, Max(0, j - ov), out2, mc, ov)

\* chunk_text_with with a fault: the text is not stripped
chunk_text_unstripped(text_str, mc, ov) ==
  IF text_str = <<>> THEN <<>> ELSE ChunkLoop(text_str, 0, <<>>, mc, ov)

chunk_text_with(text_str, mc, ov) ==
  LET s == Strip(text_str)
  IN IF s = <<>> THEN <<>> ELSE ChunkLoop(s, 0, <<>>, mc, ov)

chunk_text(text_str) == chunk_text_with(text_str, max_chars, overlap)

-----------------------------------------------------------------------------
(* pathlib, on the paths of the model.                                      *)

\* PurePosixPath(s).parts: the segments, "." dropped
Parts(str) == SelectSeq(str, LAMBDA x : x # ".")

\* PurePosixPath.as_posix(): the path without segments prints as "."
AsPosix(parts) == IF parts = <<>> THEN <<".">> ELSE parts

\* PurePosixPath(s).parent.as_posix()
ParentPosix(str) ==
  LET parts == Parts(str)
  IN AsPosix(IF parts = <<>> THEN parts ELSE SubSeq(parts, 1, Len(parts) - 1))

\* Path.suffix and Path.stem of the file names of the model
Suffix(name) ==
  CASE name = "a.md" -> ".md"
    [] name = "b.TXT" -> ".TXT"
    [] name = "b.txt" -> ".txt"
    [] name = "c.md" -> ".md"
    [] OTHER -> ""

Stem(name) ==
  CASE name = "a.md" -> "a"
    [] name = "b.TXT" -> "b"
    [] name = "b.txt" -> "b"
    [] name = "c.md" -> "c"
    [] OTHER -> name

\* full_path.suffix.lower().lstrip(".") or None
Ext(name) ==
  LET sfx == Suffix(name)
  IN CASE sfx = ".md" -> "md"
       [] sfx = ".TXT" -> "txt"
       [] sfx = ".txt" -> "txt"
       [] OTHER -> NullText

\* the characters of a path segment or of a segment of a glob pattern
Chars(segment) ==
  CASE segment = "a.md" -> <<"a", ".", "m", "d">>
    [] segment = "b.TXT" -> <<"b", ".", "T", "X", "T">>
    [] segment = "b.txt" -> <<"b", ".", "t", "x", "t">>
    [] segment = "c.md" -> <<"c", ".", "m", "d">>
    [] segment = ".git" -> <<".", "g", "i", "t">>
    [] segment = "*.md" -> <<"*", ".", "m", "d">>
    [] segment = "**" -> <<"*", "*">>
    [] OTHER -> <<segment>>

\* fnmatch.fnmatchcase on characters: "*" stands for any run of characters,
\* a leading dot included, "?" for one character, any other for itself
RECURSIVE fnmatch_chars(_, _)
fnmatch_chars(name, pat) ==
  IF pat = <<>> THEN name = <<>>
  ELSE IF Head(pat) = "*"
  THEN fnmatch_chars(name, Tail(pat)) \/ (name # <<>> /\ fnmatch_chars(Tail(name), pat))
  ELSE IF Head(pat) = "?"
  THEN name # <<>> /\ fnmatch_chars(Tail(name), Tail(pat))
  ELSE name # <<>> /\ Head(name) = Head(pat) /\ fnmatch_chars(Tail(name), Tail(pat))

fnmatchcase(segment, pat) == fnmatch_chars(Chars(segment), Chars(pat))

\* The match of the spec's Glob Matcher (shell globs: "*", "**", "?"), which
\* the code does not use: "**" stands for any number of segments, none
\* included, and the whole path is matched.
RECURSIVE PathMatch_recursive(_, _)
PathMatch_recursive(rel_posix, pat) ==
  LET parts == Parts(rel_posix)
      pat_parts == Parts(pat)
  IN IF pat_parts = <<>> THEN parts = <<>>
     ELSE IF Head(pat_parts) = "**"
     THEN \/ PathMatch_recursive(parts, Tail(pat_parts))
          \/ (parts # <<>> /\ PathMatch_recursive(Tail(parts), pat_parts))
     ELSE /\ parts # <<>>
          /\ fnmatchcase(Head(parts), Head(pat_parts))
          /\ PathMatch_recursive(Tail(parts), Tail(pat_parts))

\* PurePosixPath(rel_posix).match(pat) for a relative pattern, given like a
\* path by its segments. The pattern without segments raises ValueError,
\* which _matches_any takes as no match; a pattern with more segments than
\* the path does not match; otherwise the segments are matched from the
\* right, each by fnmatchcase, so that "**" is a "*" for one segment.
PathMatch(rel_posix, pat) ==
  LET parts == Parts(rel_posix)
      pat_parts == Parts(pat)
  IN /\ pat_parts # <<>>
     /\ Len(pat_parts) <= Len(parts)
     /\ \A k \in 0..(Len(pat_parts) - 1) :
          fnmatchcase(parts[Len(parts) - k], pat_parts[Len(pat_parts) - k])

\* line 29: p.match(pat) raises ValueError("empty pattern") for a pattern
\* without segments ("" or ".")
match_raises(pat) == Parts(pat) = <<>>

\* the outcome of a function that returns a bool or raises
Returns(value) == [raised |-> "", value |-> value]
Raises(exception) == [raised |-> exception, value |-> FALSE]

\* on_match_error with a fault: the exception of p.match is not caught
on_match_error_raise(rest_outcome) == Raises("ValueError")

\* lines 31-32: except Exception: continue
on_match_error(rest_outcome) == rest_outcome

\* lines 27-33: the loop of _matches_any over the patterns in their order
RECURSIVE matches_any_loop(_, _)
matches_any_loop(rel_posix, patterns) ==
  IF patterns = <<>> THEN Returns(FALSE)
  ELSE IF match_raises(Head(patterns))
  THEN on_match_error(matches_any_loop(rel_posix, Tail(patterns)))
  ELSE IF PathMatch(rel_posix, Head(patterns)) THEN Returns(TRUE)
  ELSE matches_any_loop(rel_posix, Tail(patterns))

matches_any(rel_posix, patterns) == matches_any_loop(rel_posix, patterns).value

\* lines 35-40, with the exception a call of _matches_any could let through
should_include_outcome(rel_posix, include_globs, exclude_globs) ==
  IF exclude_globs # <<>> /\ matches_any_loop(rel_posix, exclude_globs).raised # ""
  THEN matches_any_loop(rel_posix, exclude_globs)
  ELSE IF exclude_globs # <<>> /\ matches_any(rel_posix, exclude_globs) THEN Returns(FALSE)
  ELSE IF include_globs = <<>> THEN Returns(TRUE)
  ELSE matches_any_loop(rel_posix, include_globs)

should_include(rel_posix, include_globs, exclude_globs) ==
  should_include_outcome(rel_posix, include_globs, exclude_globs).value

-----------------------------------------------------------------------------
(* The filesystem: per source a root that exists or not and, per path, a    *)
(* file that is absent or has bytes, an mtime, and may refuse stat or read. *)

Absent == [present |-> FALSE, bytes |-> <<>>, mtime |-> 0, stat_ok |-> TRUE, read_ok |-> TRUE]

FileOf(bytes, mtime) ==
  [present |-> TRUE, bytes |-> bytes, mtime |-> mtime, stat_ok |-> TRUE, read_ok |-> TRUE]

PresentPaths(tree) == {q \in DOMAIN tree.files : tree.files[q].present}

DirOf(path) == SubSeq(path, 1, Len(path) - 1)

Prefixes(q) == {SubSeq(q, 1, n) : n \in 0..Len(q)}

\* the directories os.walk visits: the root and every directory on the way
\* to a file
WalkDirs(tree) == {<<>>} \cup UNION {Prefixes(DirOf(q)) : q \in PresentPaths(tree)}

\* os.walk(root_path): topdown, so a directory comes after its parent; the
\* order of the names inside a directory is the order scandir gives, which
\* nothing fixes. A walk is a sequence of (directory, file paths).
Walks(tree) ==
  LET dirs == WalkDirs(tree)
      dirSeqs == {ds \in Perms(dirs) :
                    \A i, j \in DOMAIN ds :
                      (ds[i] # ds[j] /\ ds[i] \in Prefixes(ds[j])) => i < j}
      fileSeqs == Perms(PresentPaths(tree))
  IN {[k \in DOMAIN ds |->
         [dir |-> ds[k],
          files |-> SelectSeq(fo, LAMBDA q : DirOf(q) = ds[k])]] :
        ds \in dirSeqs, fo \in fileSeqs}

-----------------------------------------------------------------------------
(* The database. A table is the set of its rows (ingest_runs, whose ids the *)
(* caller sees, is a sequence and a run's id its position). The store's ids *)
(* are opaque: a new row's id is named after the run that inserts it and    *)
(* the key it is inserted for, which no run inserts twice.                  *)

NoId == <<>>

\* now() of PostgreSQL is the start time of the transaction: one value for
\* a whole call, later than that of every transaction committed before. It
\* is read after the call has inserted its ingest_runs row.
Now(d) == Len(d.ingest_runs)

\* DocRows with a fault: the lookup finds no document
DocRows_none(d, campaign_id, source_file_id) == {}

\* SELECT id, content_hash FROM kb_documents WHERE campaign_id AND source_file_id
DocRows(d, campaign_id, source_file_id) ==
  {r \in d.kb_documents :
     r.campaign_id = campaign_id /\ r.source_file_id = source_file_id}

\* the chunk rows inserted for the chunks of a body, in enumerate() order
ChunkRows(run_id, campaign_id, doc_id, chunks) ==
  {[id |-> <<run_id, doc_id, k - 1>>, campaign_id |-> campaign_id,
    document_id |-> doc_id, section_path |-> "", chunk_index |-> k - 1,
    content |-> chunks[k]] : k \in DOMAIN chunks}

\* DeleteChunks with a fault: the DELETE removes nothing
DeleteChunks_none(chunkTable, doc_id) == chunkTable

\* DELETE FROM kb_chunks WHERE document_id = :doc_id
DeleteChunks(chunkTable, doc_id) == {r \in chunkTable : r.document_id # doc_id}

\* upsert_document_and_chunks with a fault: content_hash is not compared,
\* a document that is found is always rewritten
upsert_unguarded(d, campaign_id, source_file_id, title, doc_type, body) ==
  LET content_hash == sha256_text(body)
      found == DocRows(d, campaign_id, source_file_id)
      doc_id == IF found # {} THEN (CHOOSE r \in found : TRUE).id
                ELSE <<Now(d), source_file_id>>
      docs2 == {r \in d.kb_documents : r.id # doc_id} \cup
                 {[id |-> doc_id, campaign_id |-> campaign_id,
                   source_file_id |-> source_file_id, doc_type |-> doc_type,
                   title |-> title, body_md |-> body,
                   content_hash |-> content_hash, updated_at |-> Now(d)]}
  IN [db |-> [d EXCEPT !.kb_documents = docs2,
                       !.kb_chunks = DeleteChunks(d.kb_chunks, doc_id) \cup
                                       ChunkRows(Now(d), campaign_id, doc_id, chunk_text(body))],
      doc_id |-> doc_id, action |-> "ingested"]

upsert_document_and_chunks(d, campaign_id, source_file_id, title, doc_type, body) ==
  LET content_hash == sha256_text(body)
      found == DocRows(d, campaign_id, source_file_id)
      doc_row == CHOOSE r \in found : TRUE
  IN IF found # {} /\ doc_row.content_hash = content_hash
     THEN [db |-> d, doc_id |-> doc_row.id, action |-> "skipped"]
     ELSE
       LET doc_id == IF found # {} THEN doc_row.id ELSE <<Now(d), source_file_id>>
           docs2 == IF found # {}
                    THEN {IF r.id \in {doc_id}
                          THEN [r EXCEPT !.title = title, !.doc_type = doc_type,
                                         !.body_md = body, !.content_hash = content_hash,
                                         !.updated_at = Now(d)]
                          ELSE r : r \in d.kb_documents}
                    ELSE d.kb_documents \cup
                           {[id |-> doc_id, campaign_id |-> campaign_id,
                             source_file_id |-> source_file_id, doc_type |-> doc_type,
                             title |-> title, body_md |-> body,
                             content_hash |-> content_hash, updated_at |-> Now(d)]}
           kept == IF found # {} THEN DeleteChunks(d.kb_chunks, doc_id) ELSE d.kb_chunks
           chunks == chunk_text(body)
       IN [db |-> [d EXCEPT !.kb_documents = docs2,
                            !.kb_chunks = kept \cup ChunkRows(Now(d), campaign_id, doc_id, chunks)],
           doc_id |-> doc_id, action |-> "ingested"]

-----------------------------------------------------------------------------
(* Statements of update_campaign_kb.                                        *)

ZeroStats ==
  [sources_total |-> 0, sources_scanned |-> 0, files_seen |-> 0, files_new |-> 0,
   files_changed |-> 0, files_unchanged |-> 0, files_deleted |-> 0,
   files_ingested |-> 0, docs_ingested |-> 0, docs_skipped |-> 0, errors |-> <<>>]

\* source_files has a unique key (source_id, rel_path): the rows an INSERT
\* of that key collides with
SourceFileKeyRows(d, source_id, rel_path) ==
  {r \in d.source_files : r.source_id = source_id /\ r.rel_path = rel_path}

FolderKeyRows(d, source_id, rel_path) ==
  {r \in d.source_folders : r.source_id = source_id /\ r.rel_path = rel_path}

RunFileKeyRows(d, run_id, file_id) ==
  {r \in d.ingest_run_files : r.ingest_run_id = run_id /\ r.source_file_id = file_id}

\* UPDATE source_folders SET last_seen_at = now() WHERE source_id AND rel_path
TouchFolder(d, source_id, rel_path) ==
  [d EXCEPT !.source_folders =
     {IF r.source_id = source_id /\ r.rel_path = rel_path
      THEN [r EXCEPT !.last_seen_at = Now(d)] ELSE r : r \in @}]

\* INSERT INTO source_folders ... ON CONFLICT (source_id, rel_path)
\* DO UPDATE SET last_seen_at = now() RETURNING id
InsertFolder(d, source_id, rel_path, parent_id, depth) ==
  LET hit == FolderKeyRows(d, source_id, rel_path)
      id == <<Now(d), source_id, rel_path>>
  IN IF hit # {}
     THEN [db |-> TouchFolder(d, source_id, rel_path), id |-> (CHOOSE r \in hit : TRUE).id]
     ELSE [db |-> [d EXCEPT !.source_folders =
                     @ \cup {[id |-> id, source_id |-> source_id, rel_path |-> rel_path,
                              parent_id |-> parent_id, depth |-> depth,
                              last_seen_at |-> Now(d)]}],
           id |-> id]

\* INSERT INTO ingest_run_files (.., action, 'ok', reason) ON CONFLICT DO NOTHING
InsertRunFileOk(d, run_id, file_id, action, reason) ==
  IF RunFileKeyRows(d, run_id, file_id) # {} THEN d
  ELSE [d EXCEPT !.ingest_run_files =
          @ \cup {[ingest_run_id |-> run_id, source_file_id |-> file_id,
                   action |-> action, status |-> "ok", reason |-> reason,
                   error |-> NullText]}]

\* INSERT INTO ingest_run_files (.., 'ingest', 'error', :err)
\* ON CONFLICT DO UPDATE SET status = 'error', error = excluded.error
InsertRunFileError(d, run_id, file_id, err) ==
  LET hit == RunFileKeyRows(d, run_id, file_id)
  IN IF hit # {}
     THEN [d EXCEPT !.ingest_run_files =
             {IF r \in hit THEN [r EXCEPT !.status = "error", !.error = err] ELSE r : r \in @}]
     ELSE [d EXCEPT !.ingest_run_files =
             @ \cup {[ingest_run_id |-> run_id, source_file_id |-> file_id,
                      action |-> "ingest", status |-> "error", reason |-> NullText,
                      error |-> err]}]

-----------------------------------------------------------------------------
(* update_campaign_kb. A call's progress is a context record c: the         *)
(* database as the transaction sees it, the stats, the locals of the source *)
(* loop, and the exception ("" while none) that is unwinding the call.      *)
(* p holds the call's arguments and the id of its ingest_runs row.          *)

Bump(c, counter) == [c EXCEPT !.stats[counter] = @ + 1]

AddError(c, e) == [c EXCEPT !.stats.errors = Append(@, e)]

\* UPDATE source_files SET last_ingested_at = now(), last_ingest_status, error
SetIngestStatus(d, source_file_id, ingest_status, err) ==
  [d EXCEPT !.source_files =
     {IF r.id \in {source_file_id}
      THEN [r EXCEPT !.last_ingested_at = Now(d), !.last_ingest_status = ingest_status,
                     !.error = err]
      ELSE r : r \in @}]

\* record_ingest with a fault: files_ingested is not counted
record_ingest_docs_only(c, p, source_file_id, up) ==
  IF up.action = "ingested"
  THEN [Bump(c, "docs_ingested") EXCEPT
          !.db = InsertRunFileOk(SetIngestStatus(up.db, source_file_id, "ok", NullText),
                                 p.run_id, source_file_id, "ingest", NullText)]
  ELSE [Bump(c, "docs_skipped") EXCEPT
          !.db = InsertRunFileOk(SetIngestStatus(up.db, source_file_id, "skipped", NullText),
                                 p.run_id, source_file_id, "ingest", NullText)]

\* lines 363-384: after _upsert_document_and_chunks returned up, the
\* counters, the file's ingest status and the run's audit row
record_ingest(c, p, source_file_id, up) ==
  IF up.action = "ingested"
  THEN [Bump(Bump(c, "files_ingested"), "docs_ingested") EXCEPT
          !.db = InsertRunFileOk(SetIngestStatus(up.db, source_file_id, "ok", NullText),
                                 p.run_id, source_file_id, "ingest", NullText)]
  ELSE [Bump(c, "docs_skipped") EXCEPT
          !.db = InsertRunFileOk(SetIngestStatus(up.db, source_file_id, "skipped", NullText),
                                 p.run_id, source_file_id, "ingest", NullText)]

\* lines 385-408: the handler of the try block
record_ingest_error(c, p, rel_path, source_file_id, err) ==
  [AddError(c, <<"ingest failed", rel_path, err>>) EXCEPT
     !.db = InsertRunFileError(SetIngestStatus(c.db, source_file_id, "error", err),
                               p.run_id, source_file_id, err)]

\* line 343: doc_type from the extension
doc_type_of(ext) == IF ext = "md" THEN "md" ELSE IF ext # NullText THEN ext ELSE "file"

\* lines 339-408: the try block that reads and materialises one file, and
\* its handler
ingest_file(c, p, f, rel_path, source_file_id) ==
  IF f.read_ok
  THEN record_ingest([c EXCEPT !.files_to_ingest = @ + 1], p, source_file_id,
         upsert_document_and_chunks(c.db, p.campaign_id, source_file_id,
                                    Stem(rel_path[Len(rel_path)]),
                                    doc_type_of(Ext(rel_path[Len(rel_path)])),
                                    Decode(f.bytes)))
  ELSE record_ingest_error([c EXCEPT !.files_to_ingest = @ + 1], p, rel_path,
                           source_file_id, "read failed")

\* changed_hint_of with a fault: the stored size and mtime are not trusted
changed_hint_always(is_new, prev, size_bytes, mtime_epoch) == TRUE

\* line 278: changed_hint
changed_hint_of(is_new, prev, size_bytes, mtime_epoch) ==
  is_new \/ prev.size_bytes # size_bytes \/ prev.mtime_epoch # mtime_epoch

\* computes_hash with a fault: mode sha256 is not taken for a hashing mode
computes_hash_auto_only(change_detection, force_rehash, changed_hint, is_new) ==
  /\ change_detection = "auto"
  /\ (force_rehash \/ changed_hint \/ is_new)

\* line 283: whether the file is read and hashed
computes_hash(change_detection, force_rehash, changed_hint, is_new) ==
  /\ change_detection \in {"sha256", "auto"}
  /\ (force_rehash \/ changed_hint \/ is_new)

\* changed_of with a fault: the hash does not overrule size and mtime
changed_of_meta(is_new, prev, changed_hint, hashes, sha256_now) == changed_hint

\* lines 281-286: changed
changed_of(is_new, prev, changed_hint, hashes, sha256_now) ==
  IF hashes /\ ~is_new /\ prev.sha256 = sha256_now THEN FALSE ELSE changed_hint

\* lines 300-315: INSERT INTO source_files (.., 'seen', now(), 'never')
insert_source_file(d, id, source_id, folder_id, rel_path, ext, size_bytes, mtime_epoch, sha256) ==
  [d EXCEPT !.source_files =
     @ \cup {[id |-> id, source_id |-> source_id, folder_id |-> folder_id,
              rel_path |-> rel_path, ext |-> ext,
              size_bytes |-> size_bytes, mtime_epoch |-> mtime_epoch,
              sha256 |-> sha256, status |-> "seen", last_seen_at |-> Now(d),
              last_ingest_status |-> "never", last_ingested_at |-> 0,
              error |-> NullText]}]

\* lines 317-333: UPDATE source_files SET .. status = 'seen' WHERE id = :id
update_source_file(d, id, folder_id, ext, size_bytes, mtime_epoch, sha256) ==
  [d EXCEPT !.source_files =
     {IF r.id \in {id}
      THEN [r EXCEPT !.folder_id = folder_id, !.ext = ext, !.size_bytes = size_bytes,
                     !.mtime_epoch = mtime_epoch, !.sha256 = sha256, !.status = "seen",
                     !.last_seen_at = Now(d)]
      ELSE r : r \in @}]

\* cap_reached with a fault: max_files is ignored
cap_never(max_files, files_to_ingest) == FALSE

\* line 336: the cap on the files ingested
cap_reached(max_files, files_to_ingest) ==
  max_files # {} /\ (\A k \in max_files : files_to_ingest >= k)

\* lines 335-337: a new or changed file is ingested unless the run is dry or
\* the cap is reached
maybe_ingest(c, p, f, rel_path, source_file_id, wanted) ==
  IF wanted /\ ~p.dry_run /\ ~cap_reached(p.max_files, c.files_to_ingest)
  THEN ingest_file(c, p, f, rel_path, source_file_id)
  ELSE c

\* lines 292-333: the counters, and the file's row inserted or updated
record_file(c, p, src, f, folder_id, rel_path, is_new, prev, sha256, changed) ==
  IF is_new
  THEN IF SourceFileKeyRows(c.db, src.id, rel_path) # {}
       THEN [c EXCEPT !.raised = "IntegrityError"]
       ELSE maybe_ingest(
              [Bump(c, "files_new") EXCEPT
                 !.db = insert_source_file(c.db, <<Now(c.db), src.id, rel_path>>, src.id,
                                           folder_id, rel_path,
                                           Ext(rel_path[Len(rel_path)]),
                                           Len(f.bytes), f.mtime, sha256)],
              p, f, rel_path, <<Now(c.db), src.id, rel_path>>, TRUE)
  ELSE maybe_ingest(
         [Bump(c, IF changed THEN "files_changed" ELSE "files_unchanged") EXCEPT
            !.db = update_source_file(c.db, prev.id, folder_id,
                                      Ext(rel_path[Len(rel_path)]),
                                      Len(f.bytes), f.mtime, sha256)],
         p, f, rel_path, prev.id, changed)

\* lines 276-290: the file is classified against its row, and hashed when
\* the source's change_detection asks for it; the read is outside any try
classify_file(c, p, src, f, folder_id, rel_path, is_new, prev, changed_hint, hashes) ==
  IF hashes /\ ~f.read_ok THEN [c EXCEPT !.raised = "OSError"]
  ELSE record_file(c, p, src, f, folder_id, rel_path, is_new, prev,
                   IF hashes THEN sha256_file(f.bytes) ELSE prev.sha256,
                   changed_of(is_new, prev, changed_hint, hashes, sha256_file(f.bytes)))

\* lines 270-283: the file's row of existing_map, if it has one
seen_file(c, p, src, f, folder_id, rel_path, is_new, prev) ==
  classify_file(Bump([c EXCEPT !.seen_paths = @ \cup {rel_path}], "files_seen"),
                p, src, f, folder_id, rel_path, is_new, prev,
                changed_hint_of(is_new, prev, Len(f.bytes), f.mtime),
                computes_hash(src.change_detection, p.force_rehash,
                              changed_hint_of(is_new, prev, Len(f.bytes), f.mtime),
                              is_new))

\* lines 257-408: the body of "for fn in filenames"
process_file(c, p, src, tree, dir_rel, rel_path) ==
  IF c.raised # "" THEN c
  ELSE IF ~should_include(rel_path, src.include_globs, src.exclude_globs) THEN c
  ELSE IF ~tree.files[rel_path].stat_ok THEN AddError(c, <<"stat failed", rel_path>>)
  ELSE seen_file(c, p, src, tree.files[rel_path],
                 IF dir_rel \in DOMAIN c.folder_map THEN c.folder_map[dir_rel]
                 ELSE c.folder_map[EmptyStr],
                 rel_path,
                 rel_path \notin DOMAIN c.existing_map,
                 IF rel_path \notin DOMAIN c.existing_map
                 THEN [id |-> NoId, size_bytes |-> 0, mtime_epoch |-> 0, sha256 |-> None]
                 ELSE c.existing_map[rel_path])

RECURSIVE process_files(_, _, _, _, _, _)
process_files(c, p, src, tree, dir_rel, filenames) ==
  IF filenames = <<>> THEN c
  ELSE process_files(process_file(c, p, src, tree, dir_rel, Head(filenames)),
                     p, src, tree, dir_rel, Tail(filenames))

\* lines 232-408: the body of "for dirpath, _, filenames in os.walk(...)"
process_dir(c, p, src, tree, entry) ==
  LET dir_rel == AsPosix(entry.dir)
      parent_rel == IF dir_rel = EmptyStr THEN EmptyStr ELSE ParentPosix(dir_rel)
      depth == IF dir_rel = EmptyStr THEN 0 ELSE Len(Parts(dir_rel))
      c1 == IF dir_rel \notin DOMAIN c.folder_map
            THEN LET parent_id == IF parent_rel \in DOMAIN c.folder_map
                                  THEN c.folder_map[parent_rel]
                                  ELSE c.folder_map[EmptyStr]
                     ins == InsertFolder(c.db, src.id, dir_rel, parent_id, depth)
                 IN [c EXCEPT !.db = ins.db,
                              !.folder_map = [r \in DOMAIN @ \cup {dir_rel} |->
                                                IF r = dir_rel THEN ins.id ELSE @[r]]]
            ELSE [c EXCEPT !.db = TouchFolder(c.db, src.id, dir_rel)]
  IN IF c.raised # "" THEN c
     ELSE process_files(c1, p, src, tree, dir_rel, entry.files)

RECURSIVE process_dirs(_, _, _, _, _)
process_dirs(c, p, src, tree, walk) ==
  IF walk = <<>> THEN c
  ELSE process_dirs(process_dir(c, p, src, tree, Head(walk)), p, src, tree, Tail(walk))

\* mark_deleted with a fault: the missing files are counted only when they
\* are marked, so not in a dry run
mark_deleted_live_count(c, p) ==
  LET gone == {r \in DOMAIN c.existing_map : r \notin c.seen_paths}
      ids == {c.existing_map[r].id : r \in gone}
  IN IF c.raised # "" \/ p.dry_run THEN c
     ELSE [c EXCEPT !.stats.files_deleted = @ + Cardinality(gone),
                    !.db.source_files =
                       {IF r.id \in ids
                        THEN [r EXCEPT !.status = "deleted", !.last_seen_at = Now(c.db)]
                        ELSE r : r \in @},
                    !.db.ingest_run_files =
                       @ \cup {[ingest_run_id |-> p.run_id, source_file_id |-> i,
                                action |-> "delete", status |-> "ok",
                                reason |-> "missing_on_disk", error |-> NullText] :
                                 i \in {j \in ids : RunFileKeyRows(c.db, p.run_id, j) = {}}}]

\* mark_deleted with a fault: the rows of the missing files are removed
mark_deleted_purge(c, p) ==
  LET gone == {r \in DOMAIN c.existing_map : r \notin c.seen_paths}
      ids == {c.existing_map[r].id : r \in gone}
  IN IF c.raised # "" THEN c
     ELSE IF p.dry_run THEN [c EXCEPT !.stats.files_deleted = @ + Cardinality(gone)]
     ELSE [c EXCEPT !.stats.files_deleted = @ + Cardinality(gone),
                    !.db.source_files = {r \in @ : r.id \notin ids}]

\* lines 410-425: the files of existing_map the walk did not see
mark_deleted(c, p) ==
  LET gone == {r \in DOMAIN c.existing_map : r \notin c.seen_paths}
      ids == {c.existing_map[r].id : r \in gone}
      c1 == [c EXCEPT !.stats.files_deleted = @ + Cardinality(gone)]
      d2 == [c1.db EXCEPT !.source_files =
               {IF r.id \in ids
                THEN [r EXCEPT !.status = "deleted", !.last_seen_at = Now(c1.db)]
                ELSE r : r \in @}]
      fresh == {i \in ids : RunFileKeyRows(d2, p.run_id, i) = {}}
      d3 == [d2 EXCEPT !.ingest_run_files =
               @ \cup {[ingest_run_id |-> p.run_id, source_file_id |-> i,
                        action |-> "delete", status |-> "ok",
                        reason |-> "missing_on_disk", error |-> NullText] : i \in fresh}]
  IN IF c.raised # "" THEN c
     ELSE IF p.dry_run THEN c1
     ELSE [c1 EXCEPT !.db = d3]

\* lines 187-229: what a source's loop body sets up before it walks: the
\* rows not yet deleted by rel_path, the folders by rel_path, the root folder
begin_source(c, source_id) ==
  LET existing == {r \in c.db.source_files :
                     r.source_id = source_id /\ r.status # "deleted"}
      existing_map ==
        [q \in {r.rel_path : r \in existing} |->
           LET r == CHOOSE r \in existing : r.rel_path = q
           IN [id |-> r.id, size_bytes |-> r.size_bytes,
               mtime_epoch |-> r.mtime_epoch, sha256 |-> r.sha256]]
      folder_rows == {r \in c.db.source_folders : r.source_id = source_id}
      folder_map0 ==
        [q \in {r.rel_path : r \in folder_rows} |->
           (CHOOSE r \in folder_rows : r.rel_path = q).id]
      root == IF EmptyStr \notin DOMAIN folder_map0
              THEN InsertFolder(c.db, source_id, EmptyStr, NoId, 0)
              ELSE [db |-> TouchFolder(c.db, source_id, EmptyStr),
                    id |-> folder_map0[EmptyStr]]
  IN [c EXCEPT !.db = root.db, !.existing_map = existing_map,
               !.seen_paths = {},
               !.folder_map = [q \in DOMAIN folder_map0 \cup {EmptyStr} |->
                                 IF q = EmptyStr THEN root.id ELSE folder_map0[q]],
               !.files_to_ingest = 0]

\* lines 427-428: UPDATE campaign_sources SET last_ingest_at = now()
end_source(c, p, source_id) ==
  IF c.raised # "" \/ p.dry_run THEN c
  ELSE [c EXCEPT !.db.campaign_sources[source_id].last_ingest_at = Now(c.db)]

\* lines 181-185: last_scan_at is stamped, and a source whose root_path does
\* not exist is reported and skipped
scan_source(c, src, root_exists) ==
  LET c1 == [Bump(c, "sources_scanned") EXCEPT
               !.db.campaign_sources[src.id].last_scan_at = Now(c.db)]
  IN IF root_exists THEN c1
     ELSE AddError(c1, <<"root_path not found", src.name>>)

\* lines 173-428: the body of "for src in sources"
process_source(c, p, src, tree, walk) ==
  IF c.raised # "" THEN c
  ELSE IF ~tree.root THEN scan_source(c, src, FALSE)
  ELSE end_source(
         mark_deleted(
           process_dirs(begin_source(scan_source(c, src, TRUE), src.id),
                        p, src, tree, walk),
           p),
         p, src.id)

RECURSIVE process_sources(_, _, _, _, _)
process_sources(c, p, fsys, walks, sources) ==
  IF sources = <<>> THEN c
  ELSE LET src == Head(sources)
       IN process_sources(process_source(c, p, src, fsys[src.id], walks[src.id]),
                          p, fsys, walks, Tail(sources))

\* SELECT ... FROM campaign_sources WHERE campaign_id AND enabled = true
EnabledSources(d, campaign_id) ==
  {s \in DOMAIN d.campaign_sources :
     d.campaign_sources[s].campaign_id = campaign_id /\ d.campaign_sources[s].enabled}

\* run_status with a fault: the error list is ignored
run_status_ok(stats) == "ok"

\* line 430: status = "ok" if not stats["errors"] else "partial"
run_status(stats) == IF stats.errors = <<>> THEN "ok" ELSE "partial"

\* lines 431-443: UPDATE ingest_runs SET finished_at, status, stats, error
finalize_run(d, ingest_run_id, status, stats) ==
  [d EXCEPT !.ingest_runs[ingest_run_id] =
     [@ EXCEPT !.finished_at = Now(d), !.status = status,
               !.stats = stats, !.error = stats.errors]]

\* project_exists with a fault: every id is taken to exist
project_exists_always(d, campaign_id) == TRUE

\* lines 131-133: SELECT 1 FROM campaigns WHERE id = :id
project_exists(d, campaign_id) == campaign_id \in d.campaigns

\* lines 135-144: INSERT INTO ingest_runs (.., 'api', 'running') RETURNING id
insert_run(d, campaign_id) ==
  [d EXCEPT !.ingest_runs =
     Append(@, [campaign_id |-> campaign_id, trigger |-> "api",
                status |-> "running", finished_at |-> 0,
                stats |-> ZeroStats, error |-> None])]

\* finish_call with a fault: what the call wrote before the exception is
\* committed, not rolled back
finish_call_commit(d, c, ingest_run_id) ==
  IF c.raised # ""
  THEN [raised |-> c.raised, db |-> c.db, ingest_run_id |-> 0,
        status |-> "", stats |-> ZeroStats]
  ELSE [raised |-> "",
        db |-> finalize_run(c.db, ingest_run_id, run_status(c.stats), c.stats),
        ingest_run_id |-> ingest_run_id,
        status |-> run_status(c.stats), stats |-> c.stats]

\* lines 430-449: the end of the call. With no exception the run row is
\* finalised, the transaction commits and the call returns; with one the
\* transaction is rolled back to d and the exception goes to the caller.
finish_call(d, c, ingest_run_id) ==
  IF c.raised # ""
  THEN [raised |-> c.raised, db |-> d, ingest_run_id |-> 0,
        status |-> "", stats |-> ZeroStats]
  ELSE [raised |-> "",
        db |-> finalize_run(c.db, ingest_run_id, run_status(c.stats), c.stats),
        ingest_run_id |-> ingest_run_id,
        status |-> run_status(c.stats), stats |-> c.stats]

\* lines 135-171: the transaction once the ingest_runs row is inserted, the
\* stats and the locals of the call
start_context(d, campaign_id, sources_total) ==
  [db |-> insert_run(d, campaign_id),
   stats |-> [ZeroStats EXCEPT !.sources_total = sources_total],
   raised |-> "", existing_map |-> <<>>, seen_paths |-> {},
   folder_map |-> <<>>, files_to_ingest |-> 0]

\* lines 123-144: the arguments of the call and the id of its ingest_runs row
call_params(d, campaign_id, dry_run, force_rehash, max_files) ==
  [campaign_id |-> campaign_id, dry_run |-> dry_run,
   force_rehash |-> force_rehash, max_files |-> max_files,
   run_id |-> Len(d.ingest_runs) + 1]

\* The whole call. order is the order in which the SELECT returns the
\* enabled sources and walks the os.walk sequence of each source: the code
\* fixes neither. The value is what the caller gets (raised is the
\* exception, "" for a return) and the database after commit or rollback.
update_campaign_kb(d, fsys, campaign_id, dry_run, force_rehash, max_files, order, walks) ==
  IF ~project_exists(d, campaign_id)
  THEN [raised |-> "ValueError", db |-> d, ingest_run_id |-> 0,
        status |-> "", stats |-> ZeroStats]
  ELSE
    finish_call(d,
      process_sources(
        start_context(d, campaign_id, Len(order)),
        call_params(d, campaign_id, dry_run, force_rehash, max_files),
        fsys, walks,
        [k \in DOMAIN order |-> d.campaign_sources[order[k]]]),
      Len(d.ingest_runs) + 1)

-----------------------------------------------------------------------------
(* The state machine: calls of POST /kb/update, and the world changing the  *)
(* files between them.                                                      *)

\* max_files: Optional[int] with ge=1 (schemas.py); {} is None
MaxFilesValues == {{}, {1}}

InitDb ==
  [campaigns |-> {Campaign},
   campaign_sources |->
     [s \in Sources |->
        [id |-> s, campaign_id |-> Campaign, name |-> s, enabled |-> TRUE,
         include_globs |-> <<>>, exclude_globs |-> <<>>,
         change_detection |-> IF s = "s1" THEN "auto" ELSE "mtime",
         last_scan_at |-> 0, last_ingest_at |-> 0]],
   source_folders |-> {},
   source_files |-> {},
   kb_documents |-> {},
   kb_chunks |-> {},
   ingest_runs |-> <<>>,
   ingest_run_files |-> {}]

NoCall ==
  [campaign_id |-> "", dry_run |-> FALSE, force_rehash |-> FALSE,
   max_files |-> {}, again |-> FALSE,
   raised |-> "", ingest_run_id |-> 0, status |-> "", stats |-> ZeroStats]

\* no function is being applied on its own
NoArgs == <<>>
NotRun == [done |-> FALSE, value |-> <<>>]

\* no calls overlap: one call at a time
NoRuns == <<>>

\* the trees the model starts from: every root exists and holds its files
InitTree(s) ==
  [root |-> TRUE, files |-> [q \in TreePaths(s) |-> FileOf(BytesLong, 1700000000)]]

InitFs == [s \in Sources |-> InitTree(s)]

\* the orders the store and the filesystem may enumerate in
SourceOrders(d, campaign_id) == Perms(EnabledSources(d, campaign_id))

WalkChoices(fsys) ==
  {w \in [Sources -> UNION {Walks(fsys[s]) : s \in Sources}] :
     \A s \in Sources : w[s] \in Walks(fsys[s])}

\* the stores the model starts from: a new one, and one that an earlier
\* live call has synchronised with the initial trees
InitDbs ==
  {InitDb} \cup
  {update_campaign_kb(InitDb, InitFs, Campaign, FALSE, FALSE, {}, order, walks).db :
     order \in SourceOrders(InitDb, Campaign), walks \in WalkChoices(InitFs)}

Init ==
  /\ db \in InitDbs
  /\ fs = InitFs
  /\ calls = 0
  /\ before = db
  /\ last_call = NoCall
  /\ edited = FALSE
  /\ last_live = (db # InitDb)
  /\ args = NoArgs
  /\ result = NotRun
  /\ runs = NoRuns

\* what a call leaves: the database it committed or rolled back to, and the
\* answer its caller holds
Respond(campaign_id, dry_run, force_rehash, max_files, r) ==
  /\ calls' = calls + 1
  /\ before' = db
  /\ db' = r.db
  /\ last_call' = [campaign_id |-> campaign_id, dry_run |-> dry_run,
                   force_rehash |-> force_rehash, max_files |-> max_files,
                   again |-> last_live /\ ~edited,
                   raised |-> r.raised, ingest_run_id |-> r.ingest_run_id,
                   status |-> r.status, stats |-> r.stats]
  /\ edited' = (edited /\ r.raised # "")
  /\ last_live' = IF r.raised = "" THEN ~dry_run ELSE last_live
  /\ UNCHANGED <<fs, args, result, runs>>

\* POST /kb/update (routes.py kb_update): the handler runs update_campaign_kb
\* and gives its caller the result or the exception
KbUpdate ==
  \E walks \in WalkChoices(fs), campaign_id \in CampaignIds :
    \E order \in SourceOrders(db, campaign_id), dry_run \in BOOLEAN,
       force_rehash \in BOOLEAN, max_files \in MaxFilesValues :
      /\ calls < MaxCalls
      /\ Respond(campaign_id, dry_run, force_rehash, max_files,
                 update_campaign_kb(db, fs, campaign_id, dry_run, force_rehash,
                                    max_files, order, walks))

\* the files change between two calls: at most one change, and the latest
\* call's answer is no longer about the files as they are
Edit(fs1) ==
  /\ ~edited /\ calls < MaxCalls
  /\ fs1 # fs
  /\ fs' = fs1
  /\ edited' = TRUE
  /\ before' = db
  /\ last_call' = NoCall
  /\ UNCHANGED <<db, calls, last_live, args, result, runs>>

\* the world writes a file (new, rewritten or only touched)
WriteFile ==
  \E s \in Sources, bytes \in Contents, mtime \in Mtimes :
    \E q \in DOMAIN fs[s].files :
      /\ fs[s].root
      /\ Edit([fs EXCEPT ![s].files[q] =
                 [@ EXCEPT !.present = TRUE, !.bytes = bytes, !.mtime = mtime]])

\* the world removes a file
RemoveFile ==
  \E s \in Sources :
    \E q \in DOMAIN fs[s].files :
      /\ fs[s].root
      /\ fs[s].files[q].present
      /\ Edit([fs EXCEPT ![s].files[q] = Absent])

\* the world changes a file's permissions: stat fails, or open fails, or
\* both work again
Chmod ==
  \E s \in Sources, mode \in {<<FALSE, TRUE>>, <<TRUE, FALSE>>, <<TRUE, TRUE>>} :
    \E q \in DOMAIN fs[s].files :
      /\ fs[s].root
      /\ fs[s].files[q].present
      /\ Edit([fs EXCEPT ![s].files[q] =
                 [@ EXCEPT !.stat_ok = mode[1], !.read_ok = mode[2]]])

\* the world removes or restores a source's root directory
MoveRoot ==
  \E s \in Sources, there \in BOOLEAN :
    /\ fs[s].root # there
    /\ Edit([fs EXCEPT ![s].root = there])

Next == KbUpdate \/ WriteFile \/ RemoveFile \/ Chmod \/ MoveRoot

Spec == Init /\ [][Next]_vars

-----------------------------------------------------------------------------
(* The same calls and changes, over a campaign whose source s1 has glob     *)
(* patterns: include_globs ["**/*.md"], exclude_globs ["**/.git/**"], and a *)
(* tree with a.md, b.txt and .git/c.md.                                     *)

GlobSource == "s1"

GlobDb ==
  [InitDb EXCEPT
     !.campaign_sources[GlobSource].include_globs = << <<"**", "*.md">> >>,
     !.campaign_sources[GlobSource].exclude_globs = << <<"**", ".git", "**">> >>]

GlobPaths == {PathA, PathBtxt, PathGitC}

GlobFs ==
  [s \in Sources |->
     IF s = GlobSource
     THEN [root |-> TRUE, files |-> [q \in GlobPaths |-> FileOf(BytesLong, 1700000000)]]
     ELSE InitTree(s)]

InitGlob ==
  /\ db = GlobDb
  /\ fs = GlobFs
  /\ calls = 0
  /\ before = db
  /\ last_call = NoCall
  /\ edited = FALSE
  /\ last_live = FALSE
  /\ args = NoArgs
  /\ result = NotRun
  /\ runs = NoRuns

SpecGlob == InitGlob /\ [][Next]_vars

-----------------------------------------------------------------------------
(* Functions applied on their own: the arguments are drawn from a bounded   *)
(* set, one step applies the function, and the database and the files stay  *)
(* as they start.                                                           *)

\* the longest text and the largest max_chars that are drawn
MaxTextLen == 5
MaxChunkChars == 4

\* the characters of the texts: two letters and a blank
TextChars == {"a", "b", " "}

Texts == UNION {[1..n -> TextChars] : n \in 0..MaxTextLen}

\* nothing but args and result is in play
Idle ==
  /\ db = InitDb /\ fs = InitFs /\ calls = 0 /\ before = InitDb
  /\ last_call = NoCall /\ edited = FALSE /\ last_live = FALSE
  /\ runs = NoRuns

\* the step that applies a function: once, to args
Apply(value) ==
  /\ ~result.done
  /\ result' = [done |-> TRUE, value |-> value]
  /\ UNCHANGED <<db, fs, calls, before, last_call, edited, last_live, args, runs>>

\* _chunk_text(text_str, max_chars, overlap) with max_chars > overlap >= 0
ChunkArgs ==
  {[text_str |-> t, max_chars |-> mc, overlap |-> ov] :
     t \in Texts, mc \in 1..MaxChunkChars, ov \in 0..(MaxChunkChars - 1)}

InitChunk ==
  /\ args \in {a \in ChunkArgs : a.max_chars > a.overlap}
  /\ result = NotRun
  /\ Idle

ChunkText ==
  /\ args \in ChunkArgs
  /\ Apply(chunk_text_with(args.text_str, args.max_chars, args.overlap))

SpecChunk == InitChunk /\ [][ChunkText]_vars

\* The classification of lines 276-297 on its own: prev is the row of
\* existing_map or absent, size_bytes and mtime_epoch what stat gives and
\* sha256_now what _sha256_file would give.
NoPrev == [id |-> NoId, size_bytes |-> 0, mtime_epoch |-> 0, sha256 |-> None]

HashValues == {sha256_file(bytes) : bytes \in Contents}

PrevRows ==
  [id : {<<"f1">>}, size_bytes : {3, 6}, mtime_epoch : Mtimes, sha256 : HashValues \cup {None}]

ClassifyArgs ==
  [is_new : BOOLEAN, prev : PrevRows \cup {NoPrev}, size_bytes : {3, 6},
   mtime_epoch : Mtimes, sha256_now : HashValues,
   change_detection : {"mtime", "sha256", "auto"}, force_rehash : BOOLEAN]

\* lines 276-297: changed_hint, whether the file is hashed, changed, the
\* sha256 that is stored and the counter that is bumped
classify(is_new, prev, size_bytes, mtime_epoch, sha256_now, change_detection, force_rehash) ==
  LET changed_hint == changed_hint_of(is_new, prev, size_bytes, mtime_epoch)
      hashes == computes_hash(change_detection, force_rehash, changed_hint, is_new)
      changed == changed_of(is_new, prev, changed_hint, hashes, sha256_now)
  IN [hashes |-> hashes,
      changed |-> changed,
      sha256 |-> IF hashes THEN sha256_now ELSE prev.sha256,
      counter |-> IF is_new THEN "files_new"
                  ELSE IF changed THEN "files_changed" ELSE "files_unchanged"]

\* is_new is "prev is None"
InitClassify ==
  /\ args \in {a \in ClassifyArgs : a.is_new <=> a.prev = NoPrev}
  /\ result = NotRun
  /\ Idle

Classify ==
  /\ args \in ClassifyArgs
  /\ Apply(classify(args.is_new, args.prev, args.size_bytes, args.mtime_epoch,
                    args.sha256_now, args.change_detection, args.force_rehash))

SpecClassify == InitClassify /\ [][Classify]_vars

\* _upsert_document_and_chunks on its own, inside the transaction of a
\* second run: each of two File rows has no document or the document an
\* earlier run made of one of the bodies.
UpsertFiles == {<<1, "s1", PathA>>, <<1, "s1", PathB>>}

Bodies == {Decode(bytes) : bytes \in Contents} \cup {<<>>}

NoBody == <<"no document">>

\* the document and the chunks that run 1 made of body for File f
DocOf(f, body) ==
  [id |-> <<1, f>>, campaign_id |-> Campaign, source_file_id |-> f,
   doc_type |-> "md", title |-> "a", body_md |-> body,
   content_hash |-> sha256_text(body), updated_at |-> 1]

\* the store with the documents of held (File -> body or NoBody), run 1
\* finished and run 2 begun
UpsertDb(held) ==
  [insert_run(finalize_run(insert_run(InitDb, Campaign), 1, "ok", ZeroStats), Campaign)
     EXCEPT !.kb_documents = {DocOf(f, held[f]) : f \in {g \in UpsertFiles : held[g] # NoBody}},
            !.kb_chunks = UNION {ChunkRows(1, Campaign, <<1, f>>, chunk_text(held[f])) :
                                   f \in {g \in UpsertFiles : held[g] # NoBody}}]

UpsertArgs ==
  {[db |-> UpsertDb(held), source_file_id |-> f, title |-> t, doc_type |-> dt, body |-> b] :
     held \in [UpsertFiles -> Bodies \cup {NoBody}], f \in UpsertFiles,
     t \in {"a", "b"}, dt \in {"md", "txt"}, b \in Bodies}

InitUpsert ==
  /\ args \in UpsertArgs
  /\ result = NotRun
  /\ Idle

Upsert ==
  /\ args \in UpsertArgs
  /\ Apply(upsert_document_and_chunks(args.db, Campaign, args.source_file_id,
                                      args.title, args.doc_type, args.body))

SpecUpsert == InitUpsert /\ [][Upsert]_vars

-----------------------------------------------------------------------------
(* _should_include on its own.                                              *)

\* the patterns that are drawn: "**/*.md", "*.md", ".git/*", and the empty
\* pattern, which PurePosixPath.match refuses
MalformedPattern == <<>>
GlobPatterns == {<<"**", "*.md">>, <<"*.md">>, <<".git", "*">>, MalformedPattern}

\* the longest include_globs and exclude_globs that are drawn
MaxPatterns == 2

PatternLists == UNION {[1..n -> GlobPatterns] : n \in 0..MaxPatterns}

IncludeArgs ==
  [rel_posix : {PathA, PathBtxt, PathGitC, PathC},
   include_globs : PatternLists, exclude_globs : PatternLists]

InitInclude ==
  /\ args \in IncludeArgs
  /\ result = NotRun
  /\ Idle

ShouldInclude ==
  /\ args \in IncludeArgs
  /\ Apply(should_include_outcome(args.rel_posix, args.include_globs, args.exclude_globs))

SpecInclude == InitInclude /\ [][ShouldInclude]_vars

-----------------------------------------------------------------------------
(* The three writes of ingest_run_files on their own, inside run 1: the     *)
(* table holds no row for the pair (run 1, File) or one row, and maybe the  *)
(* row of another File.                                                     *)

NoRow ==
  [ingest_run_id |-> 0, source_file_id |-> NoId, action |-> "", status |-> "",
   reason |-> "", error |-> ""]

\* the rows a pair can have
AuditRowsOf(run_id, file_id) ==
  [ingest_run_id : {run_id}, source_file_id : {file_id},
   action : {"ingest", "delete"}, status : {"ok", "error"},
   reason : {NullText, "missing_on_disk"}, error : {NullText, "read failed"}]

\* lines 375-384, 399-408 and 416-425
AuditWrites == {"ingest ok", "ingest error", "delete"}

AuditArgs ==
  {[db |-> [InitDb EXCEPT !.ingest_run_files = (IF held = NoRow THEN {} ELSE {held}) \cup other],
    held |-> held, write |-> w, file_id |-> <<1, "s1", PathA>>] :
     held \in AuditRowsOf(1, <<1, "s1", PathA>>) \cup {NoRow},
     other \in {{}} \cup {{r} : r \in AuditRowsOf(1, <<1, "s1", PathB>>)},
     w \in AuditWrites}

\* the write as the code makes it
audit_write(d, write, run_id, file_id) ==
  CASE write = "ingest ok" -> InsertRunFileOk(d, run_id, file_id, "ingest", NullText)
    [] write = "ingest error" -> InsertRunFileError(d, run_id, file_id, "read failed")
    [] write = "delete" -> InsertRunFileOk(d, run_id, file_id, "delete", "missing_on_disk")

InitAudit ==
  /\ args \in AuditArgs
  /\ result = NotRun
  /\ Idle

AuditWrite ==
  /\ args \in AuditArgs
  /\ Apply(audit_write(args.db, args.write, 1, args.file_id).ingest_run_files)

SpecAudit == InitAudit /\ [][AuditWrite]_vars

-----------------------------------------------------------------------------
(* Calls that overlap. kb_update is a plain "def" route, which the server   *)
(* runs on a thread per request; each call has its own Session and so its   *)
(* own transaction, and the code takes no lock. What the store (PostgreSQL, *)
(* READ COMMITTED) does between two transactions is part of the steps: the  *)
(* UPDATE of a campaign_sources row (line 181) holds that row until the     *)
(* transaction ends, so a second call waits there for the same source, and  *)
(* all other rows a call writes for a source come after its line 181. The   *)
(* body of the source loop is therefore one step; a statement sees what was *)
(* committed when it runs, and a commit publishes a call's writes at once.  *)

Threads == {"t1", "t2"}

\* a request thread that has not called yet. seen, existing and attempted
\* hold File keys <<source, rel_path>>: the paths the call has seen, those
\* it found in existing_map, those it executed INSERT INTO source_files for;
\* met holds the threads whose call was in flight while this one was.
Unstarted ==
  [pc |-> "idle", dry_run |-> FALSE, order |-> <<>>, walks |-> <<>>, scanned |-> {},
   seen |-> {}, existing |-> {}, attempted |-> {}, met |-> {}, raised |-> ""]

\* the call has inserted its ingest_runs row and has neither committed nor
\* rolled back
InFlight(t) == runs[t].pc = "running"

\* the files of the model, and the same with a.md unreadable
UnreadableFs == [InitFs EXCEPT !["s1"].files[PathA].read_ok = FALSE]

InitOverlap ==
  /\ db = InitDb
  /\ fs \in {InitFs, UnreadableFs}
  /\ calls = 0
  /\ before = db
  /\ last_call = NoCall
  /\ edited = FALSE
  /\ last_live = FALSE
  /\ args = NoArgs
  /\ result = NotRun
  /\ runs = [t \in Threads |-> Unstarted]

\* Begin with a fault: the call takes a lock per campaign first and waits
\* while another call is in flight
Begin_exclusive(t) ==
  /\ runs[t].pc = "idle"
  /\ \A v \in Threads : ~InFlight(v)
  /\ project_exists(db, Campaign)
  /\ \E order \in SourceOrders(db, Campaign), dry_run \in BOOLEAN :
       runs' = [runs EXCEPT ![t] = [Unstarted EXCEPT !.pc = "running", !.order = order,
                                                     !.dry_run = dry_run]]
  /\ UNCHANGED <<db, fs, calls, before, last_call, edited, last_live, args, result>>

\* lines 129-171: the call opens its session, finds the campaign, inserts
\* its ingest_runs row and selects the enabled sources. Nothing here looks
\* at other calls.
Begin(t) ==
  /\ runs[t].pc = "idle"
  /\ project_exists(db, Campaign)
  /\ \E order \in SourceOrders(db, Campaign), dry_run \in BOOLEAN :
       runs' = [u \in Threads |->
                  IF u = t
                  THEN [Unstarted EXCEPT !.pc = "running", !.order = order,
                                         !.dry_run = dry_run,
                                         !.met = {v \in Threads : InFlight(v)}]
                  ELSE IF InFlight(u) THEN [runs[u] EXCEPT !.met = @ \cup {t}]
                  ELSE runs[u]]
  /\ UNCHANGED <<db, fs, calls, before, last_call, edited, last_live, args, result>>

\* the source the call comes to next
NextSource(t) == runs[t].order[Cardinality(runs[t].scanned) + 1]

\* another call in flight has updated the source's row (line 181)
RowLocked(s, t) == \E u \in Threads \ {t} : InFlight(u) /\ s \in runs[u].scanned

\* the File rows a transaction has inserted into d.source_files
InsertedRows(d, d0) == {r \in d.source_files : \A r0 \in d0.source_files : r0.id # r.id}

\* what the thread knows after the body of the source loop left context c
after_source(r, s, walk, c, d0) ==
  [r EXCEPT !.scanned = @ \cup {s},
            !.walks = [x \in DOMAIN @ \cup {s} |-> IF x = s THEN walk ELSE @[x]],
            !.seen = @ \cup {<<s, q>> : q \in c.seen_paths},
            !.existing = @ \cup {<<s, q>> : q \in DOMAIN c.existing_map},
            !.attempted = @ \cup {<<s, row.rel_path>> : row \in InsertedRows(c.db, d0)},
            !.raised = c.raised,
            !.pc = IF c.raised # "" THEN "failed" ELSE "running"]

\* lines 173-428 for the next source: the call waits while another call in
\* flight holds the source's row; an exception ends the call (lines 447-449:
\* rollback, which gives the rows back)
ScanSource(t) ==
  /\ InFlight(t)
  /\ Cardinality(runs[t].scanned) < Len(runs[t].order)
  /\ ~RowLocked(NextSource(t), t)
  /\ \E walk \in Walks(fs[NextSource(t)]) :
       runs' = [runs EXCEPT ![t] =
                  after_source(runs[t], NextSource(t), walk,
                    process_source(
                      start_context(db, Campaign, Len(runs[t].order)),
                      call_params(db, Campaign, runs[t].dry_run, FALSE, {}),
                      db.campaign_sources[NextSource(t)], fs[NextSource(t)], walk),
                    db)]
  /\ UNCHANGED <<db, fs, calls, before, last_call, edited, last_live, args, result>>

\* lines 430-446: the run is finalised and the transaction commits: what the
\* call wrote becomes the store's. No other call committed since this one
\* took its first source row, so it wrote what the call writes on db.
Commit(t) ==
  /\ InFlight(t)
  /\ Cardinality(runs[t].scanned) = Len(runs[t].order)
  /\ db' = update_campaign_kb(db, fs, Campaign, runs[t].dry_run, FALSE, {},
                              runs[t].order, runs[t].walks).db
  /\ runs' = [runs EXCEPT ![t].pc = "committed"]
  /\ UNCHANGED <<fs, calls, before, last_call, edited, last_live, args, result>>

\* two calls wait for each other's source row: the store ends one of them
\* with an error ("deadlock detected"), which rolls it back
DeadlockAbort(t) ==
  /\ InFlight(t)
  /\ Cardinality(runs[t].scanned) < Len(runs[t].order)
  /\ \E u \in Threads \ {t} :
       /\ InFlight(u)
       /\ Cardinality(runs[u].scanned) < Len(runs[u].order)
       /\ NextSource(t) \in runs[u].scanned
       /\ NextSource(u) \in runs[t].scanned
  /\ runs' = [runs EXCEPT ![t].pc = "failed", ![t].raised = "OperationalError"]
  /\ UNCHANGED <<db, fs, calls, before, last_call, edited, last_live, args, result>>

NextOverlap ==
  \E t \in Threads : Begin(t) \/ ScanSource(t) \/ Commit(t) \/ DeadlockAbort(t)

SpecOverlap == InitOverlap /\ [][NextOverlap]_vars

-----------------------------------------------------------------------------
(* Properties. While last_call holds a call, fs is the filesystem that call *)
(* walked, before the database it started from and db the one it left.      *)

\* the latest step was a call of update_campaign_kb
Called == last_call.campaign_id # ""

\* ... and it returned a RunResult
Returned == Called /\ last_call.raised = ""

\* the File row has no file on disk, below a root that exists
Vanished(r) ==
  /\ fs[r.source_id].root
  /\ ~fs[r.source_id].files[r.rel_path].present

\* the row of db.source_files with the id of r
FileRowNow(r) == CHOOSE r2 \in db.source_files : r2.id = r.id

\* C1: after a live call that completed, a second call that completes over
\* the same campaign with unchanged files reports files_new = 0 and
\* files_changed = 0, ingests nothing (docs_ingested = 0, files_ingested = 0)
\* and leaves every document and every chunk as it was.
C1_Idempotence ==
  (last_call.again /\ last_call.raised = "") =>
    /\ last_call.stats.files_new = 0
    /\ last_call.stats.files_changed = 0
    /\ last_call.stats.docs_ingested = 0
    /\ last_call.stats.files_ingested = 0
    /\ db.kb_documents = before.kb_documents
    /\ db.kb_chunks = before.kb_chunks

\* C1's case: a second call, over a store that holds documents, that found
\* every file unchanged
C1_Witness ==
  /\ last_call.again /\ last_call.raised = ""
  /\ ~last_call.dry_run
  /\ last_call.stats.files_unchanged = 3
  /\ before.kb_documents # {}

\* C2: a dry run that returns leaves the File rows, the Folder rows, the
\* documents, the chunks and the audit rows exactly as it found them.
C2_DryRunWritesNothing ==
  (Returned /\ last_call.dry_run) =>
    /\ db.source_files = before.source_files
    /\ db.source_folders = before.source_folders
    /\ db.kb_documents = before.kb_documents
    /\ db.kb_chunks = before.kb_chunks
    /\ db.ingest_run_files = before.ingest_run_files

\* the seven counters a dry and a live call must agree on, and the ingest
\* counters that stay 0 in a dry call
SameCounts(dry, live) ==
  /\ dry.raised = live.raised
  /\ dry.stats.sources_total = live.stats.sources_total
  /\ dry.stats.sources_scanned = live.stats.sources_scanned
  /\ dry.stats.files_seen = live.stats.files_seen
  /\ dry.stats.files_new = live.stats.files_new
  /\ dry.stats.files_changed = live.stats.files_changed
  /\ dry.stats.files_unchanged = live.stats.files_unchanged
  /\ dry.stats.files_deleted = live.stats.files_deleted
  /\ dry.stats.files_ingested = 0
  /\ dry.stats.docs_ingested = 0
  /\ dry.stats.docs_skipped = 0

\* C3: from every state a call is made from, a dry call and a live call with
\* the same other arguments, source order and walks report equal
\* sources_total, sources_scanned, files_seen, files_new, files_changed,
\* files_unchanged and files_deleted (and fail alike), and the dry call
\* reports files_ingested = docs_ingested = docs_skipped = 0.
C3_DryLiveCounts ==
  calls < MaxCalls =>
    \A walks \in WalkChoices(fs), order \in SourceOrders(db, Campaign),
       force_rehash \in BOOLEAN, max_files \in MaxFilesValues :
      SameCounts(
        update_campaign_kb(db, fs, Campaign, TRUE, force_rehash, max_files, order, walks),
        update_campaign_kb(db, fs, Campaign, FALSE, force_rehash, max_files, order, walks))

\* the dry and the live call both report a changed and a deleted file, and
\* the live one ingests
BothSeeChange(dry, live) ==
  /\ dry.raised = "" /\ live.raised = ""
  /\ dry.stats.files_changed + dry.stats.files_deleted > 0
  /\ dry.stats.files_unchanged > 0
  /\ live.stats.docs_ingested + live.stats.files_deleted > 0

\* C3's case: a state whose files differ from what the store recorded
C3_Witness ==
  /\ calls < MaxCalls
  /\ db.source_files # {}
  /\ \E walks \in WalkChoices(fs), order \in SourceOrders(db, Campaign) :
       BothSeeChange(
         update_campaign_kb(db, fs, Campaign, TRUE, FALSE, {}, order, walks),
         update_campaign_kb(db, fs, Campaign, FALSE, FALSE, {}, order, walks))

\* the audit rows the latest call wrote for a File row
AuditRows(r) ==
  {a \in db.ingest_run_files :
     a.ingest_run_id = last_call.ingest_run_id /\ a.source_file_id = r.id}

\* C4: no call removes a File row; a live call that returns turns every
\* `seen` row whose path has vanished into `deleted` and writes exactly one
\* audit row for it, a `delete`; for a row already `deleted` whose path stays
\* absent it writes no audit row, and files_deleted counts the rows the call
\* turned `deleted` and no other.
C4_SoftDelete ==
  Called =>
    /\ \A r \in before.source_files : \E r2 \in db.source_files : r2.id = r.id
    /\ (last_call.raised = "" /\ ~last_call.dry_run) =>
         /\ \A r \in before.source_files :
              Vanished(r) =>
                /\ FileRowNow(r).status = "deleted"
                /\ r.status = "seen" =>
                     /\ Cardinality(AuditRows(r)) = 1
                     /\ \A a \in AuditRows(r) : a.action = "delete"
                /\ r.status = "deleted" => AuditRows(r) = {}
         /\ last_call.stats.files_deleted =
              Cardinality({r \in before.source_files :
                             r.status = "seen" /\ FileRowNow(r).status = "deleted"})

\* C4's case: a live call that found one path newly absent and another
\* still absent after an earlier call had marked it deleted
C4_Witness ==
  /\ Returned /\ ~last_call.dry_run
  /\ \E r \in before.source_files : r.status = "seen" /\ Vanished(r)
  /\ \E r \in before.source_files : r.status = "deleted" /\ Vanished(r)

\* C5: a call for a campaign id the store does not hold raises the
\* not-found error (ValueError, HTTP 400) and leaves the whole database,
\* ingest_runs included, as it was.
C5_UnknownProject ==
  (Called /\ last_call.campaign_id \notin before.campaigns) =>
    /\ last_call.raised = "ValueError"
    /\ last_call.ingest_run_id = 0
    /\ db = before

\* C5's case: the call for the unknown id, over a store that holds rows
C5_Witness ==
  /\ Called /\ last_call.campaign_id \notin before.campaigns
  /\ last_call.raised = "ValueError"
  /\ before.source_files # {}
  /\ before.ingest_runs # <<>>

\* C6: every ingest_runs row of the committed database has status ok or
\* partial, never running; it was finalised by the call that inserted it and
\* no later call rewrites it; its status is ok exactly when its error list is
\* empty; and the call returned the status it stored.
C6_RunFinalized ==
  /\ \A i \in DOMAIN db.ingest_runs :
       /\ db.ingest_runs[i].status \in {"ok", "partial"}
       /\ db.ingest_runs[i].status = "ok" <=> db.ingest_runs[i].stats.errors = <<>>
       /\ db.ingest_runs[i].error = db.ingest_runs[i].stats.errors
       /\ db.ingest_runs[i].finished_at = i
  /\ Called =>
       \A i \in DOMAIN before.ingest_runs : db.ingest_runs[i] = before.ingest_runs[i]
  /\ Returned =>
       /\ Len(db.ingest_runs) = Len(before.ingest_runs) + 1
       /\ last_call.ingest_run_id = Len(db.ingest_runs)
       /\ db.ingest_runs[last_call.ingest_run_id].status = last_call.status
       /\ db.ingest_runs[last_call.ingest_run_id].stats = last_call.stats

\* C6's case: a call that returned partial, after a call that returned ok
C6_Witness ==
  /\ Returned /\ last_call.status = "partial"
  /\ last_call.ingest_run_id > 1
  /\ db.ingest_runs[1].status = "ok"

\* C7: a call for a known campaign never ends in the exception of a file
\* that could not be read: the failure is recorded, and the call returns a
\* RunResult with status partial.
C7_FileFailureContained ==
  (Called /\ last_call.campaign_id \in before.campaigns
     /\ \E s \in Sources : \E q \in TreePaths(s) :
          /\ fs[s].root /\ fs[s].files[q].present
          /\ ~fs[s].files[q].read_ok) =>
    last_call.raised # "OSError"

\* the rows of a table that belong to source s
RowsOf(table, s) == {r \in table : r.source_id = s}

\* what the latest call, which returned, did about source s whose root is
\* missing: one error, and its File and Folder rows and the audit trail of
\* its files left alone
SkippedSource(s) ==
  /\ Cardinality({k \in DOMAIN last_call.stats.errors :
                    last_call.stats.errors[k] =
                      <<"root_path not found", before.campaign_sources[s].name>>}) = 1
  /\ RowsOf(db.source_files, s) = RowsOf(before.source_files, s)
  /\ RowsOf(db.source_folders, s) = RowsOf(before.source_folders, s)
  /\ \A a \in db.ingest_run_files \ before.ingest_run_files :
       \A r \in RowsOf(db.source_files, s) : a.source_file_id # r.id

\* ... and about source s whose root exists: scanned, walked to the end
ProcessedSource(s) ==
  /\ db.campaign_sources[s].last_scan_at = last_call.ingest_run_id
  /\ \A r \in RowsOf(db.source_folders, s) :
       r.rel_path = EmptyStr => r.last_seen_at = last_call.ingest_run_id
  /\ ~last_call.dry_run =>
       db.campaign_sources[s].last_ingest_at = last_call.ingest_run_id

\* C8: a call for a known campaign one of whose sources has no root returns
\* with status partial; that source got one error and none of its files or
\* folders was touched, and every other source was processed.
C8_MissingRootIsolated ==
  (Called /\ last_call.campaign_id \in before.campaigns
     /\ \E s \in EnabledSources(before, last_call.campaign_id) : ~fs[s].root) =>
    /\ last_call.raised = ""
    /\ last_call.status = "partial"
    /\ \A s \in EnabledSources(before, last_call.campaign_id) :
         IF fs[s].root THEN ProcessedSource(s) ELSE SkippedSource(s)

\* the part of C8 that the code keeps: what C8 says, of the calls that return
C8_IsolatedWhenReturned ==
  (Returned /\ last_call.campaign_id \in before.campaigns
     /\ \E s \in EnabledSources(before, last_call.campaign_id) : ~fs[s].root) =>
    /\ last_call.status = "partial"
    /\ \A s \in EnabledSources(before, last_call.campaign_id) :
         IF fs[s].root THEN ProcessedSource(s) ELSE SkippedSource(s)

\* C9: the store holds at most one document per (campaign, File); every
\* document's content_hash is the hash of its body; and a call keeps every
\* document it found, under the same id and for the same File, so that a
\* changed file's document is rewritten in place.
C9_OneDocumentPerFile ==
  /\ \A d1, d2 \in db.kb_documents :
       (d1.campaign_id = d2.campaign_id /\ d1.source_file_id = d2.source_file_id)
         => d1 = d2
  /\ \A d \in db.kb_documents : d.content_hash = sha256_text(d.body_md)
  /\ \A d \in before.kb_documents :
       \E d2 \in db.kb_documents :
         /\ d2.id = d.id
         /\ d2.campaign_id = d.campaign_id
         /\ d2.source_file_id = d.source_file_id

\* C9's case: a call that re-ingested a changed file whose document existed
C9_Witness ==
  /\ Returned /\ last_call.stats.files_changed > 0
  /\ \E d \in before.kb_documents :
       \E d2 \in db.kb_documents :
         /\ d2.id = d.id
         /\ d2.body_md # d.body_md
         /\ d2.updated_at = last_call.ingest_run_id

\* the chunk rows of a document
ChunksOf(d) == {r \in db.kb_chunks : r.document_id = d.id}

\* C10: the chunk rows of every document are the chunks chunk_text gives
\* for its body: as many rows as chunks, row i holding chunk i, indices
\* 0..n-1; and no chunk row belongs to no document.
C10_ChunksMatchBody ==
  /\ \A d \in db.kb_documents :
       /\ Cardinality(ChunksOf(d)) = Len(chunk_text(d.body_md))
       /\ {<<r.chunk_index, r.content>> : r \in ChunksOf(d)} =
            {<<k - 1, chunk_text(d.body_md)[k]>> : k \in DOMAIN chunk_text(d.body_md)}
  /\ \A r \in db.kb_chunks : \E d \in db.kb_documents : d.id = r.document_id

\* C10's case: a call that replaced a body by one with fewer chunks
C10_Witness ==
  /\ Returned
  /\ \E d \in before.kb_documents :
       \E d2 \in db.kb_documents :
         /\ d2.id = d.id
         /\ Len(chunk_text(d2.body_md)) < Len(chunk_text(d.body_md))
         /\ Len(chunk_text(d.body_md)) > 1

\* chunks[0] + chunks[1][ov:] + chunks[2][ov:] + ...
RECURSIVE Reconstruct(_, _)
Reconstruct(chunks, ov) ==
  IF Len(chunks) <= 1 THEN (IF chunks = <<>> THEN <<>> ELSE chunks[1])
  ELSE Reconstruct(SubSeq(chunks, 1, Len(chunks) - 1), ov)
         \o SubSeq(chunks[Len(chunks)], ov + 1, Len(chunks[Len(chunks)]))

\* C11: for every text and every max_chars > overlap >= 0, the first chunk
\* of _chunk_text followed by every later chunk without its first `overlap`
\* characters is the stripped text.
C11_FragmentReconstruction ==
  result.done => Reconstruct(result.value, args.overlap) = Strip(args.text_str)

\* C11's case: a text with blanks to strip that gave three chunks or more
\* which overlap
C11_Witness ==
  /\ result.done
  /\ Len(result.value) >= 3
  /\ args.overlap >= 1
  /\ Strip(args.text_str) # args.text_str

\* the file of a File row, as the filesystem holds it
DiskFile(r) == fs[r.source_id].files[r.rel_path]

\* ... which a walk of its source lists and can stat
Visible(r) ==
  /\ fs[r.source_id].root
  /\ DiskFile(r).present
  /\ DiskFile(r).stat_ok

\* the size or the mtime on disk is not what the row recorded
MetaDiffers(r) ==
  /\ Visible(r)
  /\ (Len(DiskFile(r).bytes) # r.size_bytes \/ DiskFile(r).mtime # r.mtime_epoch)

\* the rows of d for the documents and chunks of a File row
DocsOfFile(d, r) == {x \in d.kb_documents : x.source_file_id = r.id}
ChunksOfFile(d, r) ==
  {x \in d.kb_chunks : \E y \in DocsOfFile(d, r) : x.document_id = y.id}

\* the File rows, as the latest call found them, of ingested files of an
\* `auto` source that have since been touched: another mtime, the same size,
\* the same bytes
TouchedRows ==
  {r \in before.source_files :
     /\ r.status = "seen"
     /\ before.campaign_sources[r.source_id].change_detection = "auto"
     /\ before.campaign_sources[r.source_id].enabled
     /\ Visible(r)
     /\ DiskFile(r).mtime # r.mtime_epoch
     /\ Len(DiskFile(r).bytes) = r.size_bytes
     /\ sha256_file(DiskFile(r).bytes) = r.sha256
     /\ r.last_ingest_status = "ok"
     /\ DocsOfFile(before, r) # {}}

\* C12: under mode auto, for an ingested file whose mtime changed while its
\* size and content did not, the call computes the hash, counts the file as
\* unchanged and not as changed, leaves its document and chunks as they were
\* and writes no audit row for it.
C12_TouchedIsUnchanged ==
  (Called /\ last_call.campaign_id \in before.campaigns) =>
    /\ \A r \in TouchedRows :
         /\ computes_hash("auto", last_call.force_rehash,
                          changed_hint_of(FALSE, r, Len(DiskFile(r).bytes), DiskFile(r).mtime),
                          FALSE)
         /\ DocsOfFile(db, r) = DocsOfFile(before, r)
         /\ ChunksOfFile(db, r) = ChunksOfFile(before, r)
         /\ AuditRows(r) = {}
    /\ Returned =>
         /\ last_call.stats.files_unchanged >= Cardinality(TouchedRows)
         /\ last_call.stats.files_changed <=
              Cardinality({r \in before.source_files :
                             r.status = "seen" /\ MetaDiffers(r)} \ TouchedRows)

\* C12's case: a live call, without force_rehash, that met a touched file
C12_Witness ==
  /\ Returned /\ ~last_call.dry_run /\ ~last_call.force_rehash
  /\ TouchedRows # {}
  /\ last_call.stats.files_unchanged = 3

\* the paths of source s that a walk stats and that had no File row (none
\* that is not deleted) when the latest call began
NewPaths(s) ==
  {q \in DOMAIN fs[s].files :
     /\ fs[s].root /\ fs[s].files[q].present /\ fs[s].files[q].stat_ok
     /\ \A r \in before.source_files :
          (r.source_id = s /\ r.rel_path = q) => r.status = "deleted"}

\* the File rows of db for a path of source s
FileRowsAt(s, q) == {r \in db.source_files : r.source_id = s /\ r.rel_path = q}

\* the paths among qs of source s whose File has a document
WithDocument(s, qs) ==
  {q \in qs : \E r \in FileRowsAt(s, q) : DocsOfFile(db, r) # {}}

\* the entries of the error list that are about path q
ErrorsAbout(q) ==
  {k \in DOMAIN last_call.stats.errors :
     /\ last_call.stats.errors[k][1] \in {"ingest failed", "stat failed"}
     /\ last_call.stats.errors[k][2] = q}

\* the latest call was a live one with max_files = 1 that returned, and what
\* it found new or changed were two new, readable files of source s
TwoNewFiles(s) ==
  /\ Returned /\ ~last_call.dry_run /\ last_call.max_files = {1}
  /\ s \in EnabledSources(before, last_call.campaign_id)
  /\ Cardinality(NewPaths(s)) = 2
  /\ \A q \in NewPaths(s) : fs[s].files[q].read_ok
  /\ last_call.stats.files_new = 2
  /\ last_call.stats.files_changed = 0

\* nothing on disk fails: every root exists, every file can be statted and read
NothingFails ==
  \A s \in Sources :
    /\ fs[s].root
    /\ \A q \in DOMAIN fs[s].files :
         fs[s].files[q].present => (fs[s].files[q].stat_ok /\ fs[s].files[q].read_ok)

\* C13: with max_files = 1 and two new files in one source, the call creates
\* exactly one document, for one of the two; the other file has a row with
\* status seen and last_ingest_status never, no audit row and no entry in the
\* error list, and the cap alone does not make the run partial.
C13_CapSkipsSilently ==
  \A s \in Sources :
    TwoNewFiles(s) =>
      /\ Cardinality(WithDocument(s, NewPaths(s))) = 1
      /\ Cardinality(db.kb_documents) = Cardinality(before.kb_documents) + 1
      /\ last_call.stats.docs_ingested = 1
      /\ \A q \in NewPaths(s) \ WithDocument(s, NewPaths(s)) :
           /\ Cardinality(FileRowsAt(s, q)) = 1
           /\ \A r \in FileRowsAt(s, q) :
                /\ r.status = "seen"
                /\ r.last_ingest_status = "never"
                /\ AuditRows(r) = {}
           /\ ErrorsAbout(q) = {}
      /\ \A q \in NewPaths(s) : ErrorsAbout(q) = {}
      /\ NothingFails => (last_call.status = "ok" /\ last_call.stats.errors = <<>>)

\* C13's case: such a call, which ended ok
C13_Witness ==
  /\ \E s \in Sources : TwoNewFiles(s)
  /\ last_call.status = "ok"
  /\ Cardinality(db.source_files) = 2

\* the files the latest call tried to ingest: those it materialised, those
\* whose document it found up to date, and those whose ingest failed
IngestAttempts ==
  last_call.stats.docs_ingested + last_call.stats.docs_skipped
    + Cardinality({k \in DOMAIN last_call.stats.errors :
                     last_call.stats.errors[k][1] = "ingest failed"})

\* C14: a call with max_files = k tries to ingest at most k files, all the
\* enabled sources of the campaign taken together.
C14_CapIsPerRun ==
  (Returned /\ last_call.max_files # {}) =>
    \A k \in last_call.max_files : IngestAttempts <= k

\* what the code keeps of C14: at most k files of each source
C14_CapPerSource ==
  (Returned /\ last_call.max_files # {}) =>
    \A k \in last_call.max_files :
      /\ IngestAttempts <= k * Cardinality(EnabledSources(before, last_call.campaign_id))
      /\ \A s \in Sources :
           Cardinality({a \in db.ingest_run_files :
                          /\ a.ingest_run_id = last_call.ingest_run_id
                          /\ a.action = "ingest"
                          /\ \E r \in RowsOf(db.source_files, s) : r.id = a.source_file_id})
             <= k

\* the paths that have a File row of the source with the glob patterns
GlobRowPaths == {r.rel_path : r \in RowsOf(db.source_files, GlobSource)}

\* the latest call returned after walking the tree of the source with the
\* glob patterns, which had no File row and holds a.md, b.txt and .git/c.md
GlobScenario ==
  /\ Returned
  /\ RowsOf(before.source_files, GlobSource) = {}
  /\ before.campaign_sources[GlobSource].include_globs = << <<"**", "*.md">> >>
  /\ before.campaign_sources[GlobSource].exclude_globs = << <<"**", ".git", "**">> >>
  /\ fs[GlobSource].root
  /\ \A q \in GlobPaths :
       fs[GlobSource].files[q].present /\ fs[GlobSource].files[q].stat_ok

\* the files of the other sources that the call counted
SeenElsewhere ==
  Cardinality({r \in db.source_files :
                 /\ r.source_id # GlobSource
                 /\ r.last_seen_at = last_call.ingest_run_id
                 /\ r.status = "seen"})

\* C15: with includes ["**/*.md"] and excludes ["**/.git/**"] over a.md,
\* b.txt and .git/c.md, the call creates a File row for a.md and for no
\* other path, and counts a.md alone in files_seen.
C15_OnlyMarkdownOutsideGit ==
  GlobScenario =>
    /\ GlobRowPaths = {PathA}
    /\ last_call.stats.files_seen = 1 + SeenElsewhere

\* what the code does in C15's case: the one File row is that of .git/c.md
C15_CodeTakesGitFile ==
  GlobScenario =>
    /\ GlobRowPaths = {PathGitC}
    /\ last_call.stats.files_seen = 1 + SeenElsewhere

\* C16: a call that ends in an exception leaves the database as it found
\* it, whatever it had written by then: no ingest_runs row, no change to a
\* File, Folder, document, chunk or audit row nor to a source's timestamps.
\* A call changes the database only by the commit of a call that returns,
\* and that commit holds the call's ingest_runs row, finalised.
C16_AllOrNothing ==
  Called =>
    /\ last_call.raised # "" => db = before
    /\ db # before =>
         /\ Returned
         /\ Len(db.ingest_runs) = Len(before.ingest_runs) + 1
         /\ db.ingest_runs[Len(db.ingest_runs)].status \in {"ok", "partial"}
         /\ db.ingest_runs[Len(db.ingest_runs)].status = last_call.status

\* C16's case: a call over a store without rows that raised after it had
\* inserted its ingest_runs row and walked into a source
C16_Witness ==
  /\ Called
  /\ last_call.raised = "OSError"
  /\ before.ingest_runs = <<>>
  /\ before.source_folders = {}
  /\ db = before

\* two calls gave their callers the same and left the same database
SameOutcome(r1, r2) ==
  /\ r1.raised = r2.raised
  /\ r1.status = r2.status
  /\ r1.stats = r2.stats
  /\ r1.db = r2.db

\* C17: from every state a call is made from, two calls with the same
\* arguments over the same database and the same files report the same
\* stats and leave the same database, in whatever order the store lists the
\* sources and the filesystem the names of a directory.
C17_Deterministic ==
  calls < MaxCalls =>
    \A walks1 \in WalkChoices(fs), walks2 \in WalkChoices(fs) :
      \A order1 \in SourceOrders(db, Campaign), order2 \in SourceOrders(db, Campaign),
         dry_run \in BOOLEAN, force_rehash \in BOOLEAN, max_files \in MaxFilesValues :
        SameOutcome(
          update_campaign_kb(db, fs, Campaign, dry_run, force_rehash, max_files, order1, walks1),
          update_campaign_kb(db, fs, Campaign, dry_run, force_rehash, max_files, order2, walks2))

\* what of C17 the code keeps when no cap is set and nothing fails: the same
\* stats and the same database
C17_SameWithoutCap ==
  (calls < MaxCalls /\ NothingFails) =>
    \A walks1 \in WalkChoices(fs), walks2 \in WalkChoices(fs) :
      \A order1 \in SourceOrders(db, Campaign), order2 \in SourceOrders(db, Campaign) :
        SameOutcome(
          update_campaign_kb(db, fs, Campaign, FALSE, FALSE, {}, order1, walks1),
          update_campaign_kb(db, fs, Campaign, FALSE, FALSE, {}, order2, walks2))

\* the File rows of db with status seen that have no document
Waiting == {r \in db.source_files : r.status = "seen" /\ DocsOfFile(db, r) = {}}

\* the latest call was a live one with a cap that returned, made after a
\* live call with no change on disk in between, and nothing on disk fails
CappedRepeat ==
  /\ last_call.again /\ Returned
  /\ ~last_call.dry_run
  /\ last_call.max_files # {}
  /\ NothingFails

\* C18: repeated live calls with max_files = k over unchanged files come to
\* ingest every file: as long as a seen File has no document, the next such
\* call ingests at least one file.
C18_CappedRunsConverge ==
  CappedRepeat => (Waiting = {} \/ last_call.stats.docs_ingested >= 1)

\* what the code does instead: a File that had no document before such a
\* call has none after it, and the call leaves what the next call will
\* compare (size, mtime, hash, status) as it found it, so that every later
\* call repeats this one
C18_DeferredForever ==
  CappedRepeat =>
    /\ last_call.stats.docs_ingested = 0
    /\ \A r \in before.source_files :
         (r.status = "seen" /\ DocsOfFile(before, r) = {}) =>
           /\ FileRowNow(r) \in Waiting
           /\ FileRowNow(r).last_ingest_status = r.last_ingest_status
    /\ \A r \in before.source_files :
         /\ FileRowNow(r).size_bytes = r.size_bytes
         /\ FileRowNow(r).mtime_epoch = r.mtime_epoch
         /\ FileRowNow(r).sha256 = r.sha256
         /\ FileRowNow(r).status = r.status

\* the Change Detector of the spec (4.3), on the arguments drawn
metaChanged ==
  \/ args.prev = NoPrev
  \/ args.size_bytes # args.prev.size_bytes
  \/ args.mtime_epoch # args.prev.mtime_epoch

RefHashes ==
  /\ args.change_detection \in {"sha256", "auto"}
  /\ (args.force_rehash \/ metaChanged)

RefChanged ==
  IF RefHashes /\ args.prev # NoPrev /\ args.prev.sha256 # None
       /\ args.prev.sha256 = args.sha256_now
  THEN FALSE
  ELSE metaChanged

\* C19: for every prior row or none, size, mtime, hash, mode and
\* force_rehash, the code hashes the file exactly when the mode is sha256 or
\* auto and force_rehash or metaChanged holds, never in mode mtime, and its
\* verdict is the reference one: unchanged when the file was hashed and the
\* prior hash exists and is equal, metaChanged otherwise.
C19_VerdictIsReference ==
  result.done =>
    /\ result.value.hashes <=> RefHashes
    /\ result.value.changed <=> RefChanged
    /\ args.change_detection = "mtime" =>
         (~result.value.hashes /\ (result.value.changed <=> metaChanged))
    /\ result.value.counter =
         (IF args.prev = NoPrev THEN "files_new"
          ELSE IF RefChanged THEN "files_changed" ELSE "files_unchanged")

\* C19's case: under mode sha256 a file with a new mtime and the prior hash,
\* found unchanged
C19_Witness ==
  /\ result.done
  /\ args.change_detection = "sha256"
  /\ ~args.force_rehash
  /\ args.prev # NoPrev
  /\ args.mtime_epoch # args.prev.mtime_epoch
  /\ args.prev.sha256 = args.sha256_now
  /\ ~result.value.changed

\* the documents of the store the function was given, and of the one it
\* left, for the File it was called for
FoundDocs == DocRows(args.db, Campaign, args.source_file_id)
LeftDocs == DocRows(result.value.db, Campaign, args.source_file_id)

\* (chunk_index, content) of the chunk rows of document x in store d
ChunkPairs(d, x) ==
  {<<r.chunk_index, r.content>> : r \in {c \in d.kb_chunks : c.document_id = x.id}}

\* C20: _upsert_document_and_chunks returns skipped, having written
\* nothing, exactly when the store holds a document of the File whose
\* content_hash is the hash of the body; otherwise it returns ingested, and
\* the File then has one document (the old one under its id, or a new one)
\* with the title, type, body and hash given, whose chunks are those of the
\* body and no other, the other documents and their chunks being untouched.
C20_HashGuardedUpsert ==
  result.done =>
    /\ result.value.action \in {"skipped", "ingested"}
    /\ result.value.action = "skipped" <=>
         \E x \in FoundDocs : x.content_hash = sha256_text(args.body)
    /\ result.value.action = "skipped" =>
         /\ result.value.db = args.db
         /\ \E x \in FoundDocs : x.id = result.value.doc_id
    /\ result.value.action = "ingested" =>
         /\ Cardinality(LeftDocs) = 1
         /\ \A x \in LeftDocs :
              /\ x.id = result.value.doc_id
              /\ x.title = args.title /\ x.doc_type = args.doc_type
              /\ x.body_md = args.body
              /\ x.content_hash = sha256_text(args.body)
              /\ \A y \in FoundDocs : y.id = x.id
              /\ FoundDocs = {} => \A y \in args.db.kb_documents : y.id # x.id
              /\ ChunkPairs(result.value.db, x) =
                   {<<k - 1, chunk_text(args.body)[k]>> : k \in DOMAIN chunk_text(args.body)}
              /\ Cardinality({c \in result.value.db.kb_chunks : c.document_id = x.id}) =
                   Len(chunk_text(args.body))
         /\ result.value.db.kb_documents \ LeftDocs = args.db.kb_documents \ FoundDocs
         /\ {c \in result.value.db.kb_chunks : c.document_id # result.value.doc_id} =
              {c \in args.db.kb_chunks : c.document_id # result.value.doc_id}

\* C20's cases: a call that skipped although title and type differ from the
\* document's ...
C20_Witness ==
  /\ result.done
  /\ result.value.action = "skipped"
  /\ args.title = "b" /\ args.doc_type = "txt"
  /\ Cardinality(args.db.kb_documents) = 2

\* ... and a call that replaced a body of two chunks by the empty one
C20_WitnessReplaced ==
  /\ result.done
  /\ result.value.action = "ingested"
  /\ FoundDocs # {}
  /\ args.body = <<>>
  /\ \E x \in FoundDocs : Len(chunk_text(x.body_md)) = 2


\* a pattern of the list matches the path: the pattern is well formed and
\* PurePosixPath.match accepts the path
SomeMatch(rel_posix, patterns) ==
  \E i \in DOMAIN patterns :
    ~match_raises(patterns[i]) /\ PathMatch(rel_posix, patterns[i])

\* C21: _should_include never raises, whatever the patterns; it returns
\* False when an exclude pattern matches the path, whatever the includes;
\* otherwise True when there is no include pattern; otherwise True exactly
\* when an include pattern matches. A malformed pattern matches nothing.
C21_ShouldInclude ==
  (result.done /\ args \in IncludeArgs) =>
    /\ result.value.raised = ""
    /\ result.value.value =
         (IF SomeMatch(args.rel_posix, args.exclude_globs) THEN FALSE
          ELSE IF args.include_globs = <<>> THEN TRUE
          ELSE SomeMatch(args.rel_posix, args.include_globs))
    /\ \A q \in {PathA, PathBtxt, PathGitC, PathC} :
         ~SomeMatch(q, <<MalformedPattern>>)

\* C21's case: a malformed exclude pattern comes before one that matches,
\* and an include pattern matches too
C21_Witness ==
  /\ result.done /\ args \in IncludeArgs
  /\ Len(args.exclude_globs) = 2
  /\ args.exclude_globs[1] = MalformedPattern
  /\ SomeMatch(args.rel_posix, args.exclude_globs)
  /\ SomeMatch(args.rel_posix, args.include_globs)
  /\ result.value = Returns(FALSE)

\* ... and a malformed include pattern before one that matches
C21_WitnessInclude ==
  /\ result.done /\ args \in IncludeArgs
  /\ args.exclude_globs = <<MalformedPattern>>
  /\ Len(args.include_globs) = 2
  /\ args.include_globs[1] = MalformedPattern
  /\ result.value = Returns(TRUE)

\* C22: for max_chars > overlap >= 0, _chunk_text returns; the result is
\* empty when the stripped text is empty; otherwise it is a non-empty list
\* of non-empty fragments of at most max_chars characters, fragment n
\* (from 0) being the stripped text from n * (max_chars - overlap) on, and
\* the last fragment, and no other, ends where the text ends.
C22_ChunkWindows ==
  (result.done /\ args \in ChunkArgs /\ args.max_chars > args.overlap) =>
    LET s == Strip(args.text_str)
        step == args.max_chars - args.overlap
        out == result.value
    IN IF s = <<>> THEN out = <<>>
       ELSE /\ out # <<>>
            /\ \A n \in DOMAIN out :
                 /\ out[n] # <<>>
                 /\ Len(out[n]) <= args.max_chars
                 /\ (n - 1) * step < Len(s)
                 /\ out[n] = Slice(s, (n - 1) * step,
                                   Min(Len(s), (n - 1) * step + args.max_chars))
                 /\ ((n - 1) * step + Len(out[n]) = Len(s)) <=> (n = Len(out))

\* C22's case: a text with a blank before it that gives three overlapping
\* fragments
C22_Witness ==
  /\ result.done /\ args \in ChunkArgs
  /\ Strip(args.text_str) # args.text_str
  /\ args.overlap > 0
  /\ Len(result.value) >= 3

\* ... and a text whose last fragment is shorter than max_chars
C22_WitnessShortLast ==
  /\ result.done /\ args \in ChunkArgs
  /\ Len(result.value) >= 3
  /\ Len(result.value[Len(result.value)]) < args.max_chars

\* ... and a text of blanks only
C22_WitnessBlank ==
  /\ result.done /\ args \in ChunkArgs
  /\ args.text_str # <<>>
  /\ result.value = <<>>

\* the rows of a table of audit rows for the pair the write is about
PairRows(table) ==
  {a \in table : a.ingest_run_id = 1 /\ a.source_file_id = args.file_id}

\* what each write carries: action, outcome, error
Written(write) ==
  CASE write = "ingest ok" -> [action |-> "ingest", status |-> "ok", error |-> NullText]
    [] write = "ingest error" -> [action |-> "ingest", status |-> "error", error |-> "read failed"]
    [] write = "delete" -> [action |-> "delete", status |-> "ok", error |-> NullText]

C23_CodeWrites ==
  (result.done /\ args \in AuditArgs) =>
    /\ Cardinality(PairRows(result.value)) = 1
    /\ result.value \ PairRows(result.value) =
         args.db.ingest_run_files \ PairRows(args.db.ingest_run_files)
    /\ args.held = NoRow =>
         \A a \in PairRows(result.value) :
           /\ a.action = Written(args.write).action
           /\ a.status = Written(args.write).status
           /\ a.error = Written(args.write).error
           /\ a.reason = (IF args.write = "delete" THEN "missing_on_disk" ELSE NullText)
    /\ (args.held # NoRow /\ args.write # "ingest error") =>
         PairRows(result.value) = {args.held}
    /\ (args.held # NoRow /\ args.write = "ingest error") =>
         PairRows(result.value) =
           {[args.held EXCEPT !.status = "error", !.error = "read failed"]}

\* in a run a second write never meets a row: the audit rows of the latest
\* call are as their first write made them
C23_FirstWriteStays ==
  Returned =>
    \A a \in db.ingest_run_files :
      a.ingest_run_id = last_call.ingest_run_id =>
        \/ a.action = "ingest" /\ a.status = "ok" /\ a.reason = NullText /\ a.error = NullText
        \/ a.action = "ingest" /\ a.status = "error" /\ a.reason = NullText /\ a.error # NullText
        \/ a.action = "delete" /\ a.status = "ok" /\ a.reason = "missing_on_disk"
             /\ a.error = NullText

\* the Folder rows of source s in database d
FoldersOf(d, s) == {r \in d.source_folders : r.source_id = s}

\* the root Folder rows of source s: empty relative path
RootFolders(s) == {r \in FoldersOf(db, s) : r.rel_path = EmptyStr}

\* the run that created a Folder row (a row's id starts with it)
CreatedIn(r) == r.id[1]

\* C24: per source the Folders are a tree over the relative paths. Once a
\* source has Folders it has exactly one root (empty relative path, no
\* parent, depth 0), no other Folder has depth 0 and none was created
\* before the root; every other Folder's parent is the Folder of its
\* path without the last segment (the root for a top-level directory) and
\* its depth is its number of segments; no two Folders of a source have the
\* same relative path; and no call removes a Folder.
C24_FolderTree ==
  /\ \A s \in Sources :
       FoldersOf(db, s) # {} =>
         /\ Cardinality(RootFolders(s)) = 1
         /\ \A root \in RootFolders(s) :
              /\ root.parent_id = NoId /\ root.depth = 0
              /\ \A r \in FoldersOf(db, s) :
                   /\ r.depth = 0 => r = root
                   /\ CreatedIn(root) <= CreatedIn(r)
                   /\ r # root =>
                        /\ r.depth = Len(r.rel_path)
                        /\ \E parent \in FoldersOf(db, s) :
                             /\ parent.rel_path = DirOf(r.rel_path)
                             /\ r.parent_id = parent.id
         /\ \A r1, r2 \in FoldersOf(db, s) : r1.rel_path = r2.rel_path => r1 = r2
  /\ \A r \in before.source_folders : \E r2 \in db.source_folders : r2.id = r.id

\* what the code builds: os.walk's root directory has the relative path
\* "." (Path.relative_to(root).as_posix()), never "", so that next to the
\* root Folder "" every walked source has a Folder "." of depth 0 whose
\* parent is the root Folder, and a top-level directory's parent is the
\* Folder "." and not the root. Apart from that: one Folder per path, the
\* root first, depth the number of segments, parent the Folder of
\* PurePosixPath(rel_path).parent, and no Folder removed.
C24_TreeBelowDot ==
  /\ \A s \in Sources :
       FoldersOf(db, s) # {} =>
         /\ Cardinality(RootFolders(s)) = 1
         /\ \A root \in RootFolders(s) :
              /\ root.parent_id = NoId /\ root.depth = 0
              /\ \A r \in FoldersOf(db, s) :
                   /\ CreatedIn(root) <= CreatedIn(r)
                   /\ r # root =>
                        /\ r.depth = Len(Parts(r.rel_path))
                        /\ \E parent \in FoldersOf(db, s) :
                             /\ parent.rel_path =
                                  (IF r.rel_path = <<".">> THEN EmptyStr
                                   ELSE ParentPosix(r.rel_path))
                             /\ r.parent_id = parent.id
         /\ \A r1, r2 \in FoldersOf(db, s) : r1.rel_path = r2.rel_path => r1 = r2
         /\ \E r \in FoldersOf(db, s) : r.rel_path = <<".">> /\ r.depth = 0
  /\ \A r \in before.source_folders : \E r2 \in db.source_folders : r2.id = r.id

\* a live call walked a source with a top-level directory
C24_Scenario ==
  /\ Returned /\ ~last_call.dry_run
  /\ \E r \in FoldersOf(db, "s2") : r.rel_path = <<"d">>

\* the call of t has discovered the File key as unseen: it has seen the
\* path, and its existing_map had no row for it
Discovered(t, key) == key \in runs[t].seen /\ key \notin runs[t].existing

\* the file of the key cannot be read in a source whose new files are hashed:
\* the call ends at line 284, between the discovery and the INSERT
HashFails(key) ==
  /\ ~fs[key[1]].files[key[2]].read_ok
  /\ computes_hash(db.campaign_sources[key[1]].change_detection, FALSE, TRUE, TRUE)

\* C25: the engine does not keep calls apart. A thread that has not called
\* can begin while another call is in flight; and every call that has
\* discovered a path as unseen (and could hash the file, where it had to)
\* has executed the INSERT of a File for its key, whatever other calls have
\* discovered or inserted.
C25_NoMutualExclusion ==
  (runs # NoRuns) =>
    \A t \in Threads :
      /\ runs[t].pc = "idle" => ENABLED Begin(t)
      /\ \A key \in runs[t].seen :
           (Discovered(t, key) /\ ~HashFails(key)) => key \in runs[t].attempted

\* C25's case: two calls were in flight at the same time, both discovered
\* the same path as unseen and both executed the INSERT for its key
C25_Witness ==
  /\ runs # NoRuns
  /\ \E t, u \in Threads :
       /\ t # u /\ u \in runs[t].met
       /\ \E key \in runs[t].attempted :
            /\ key \in runs[u].attempted
            /\ Discovered(t, key) /\ Discovered(u, key)

\* ... and the two calls are in flight together
C25_WitnessInFlight ==
  /\ runs # NoRuns
  /\ \A t \in Threads : InFlight(t)
  /\ \E t \in Threads : runs[t].attempted # {}

\* what the store adds: the two INSERTs of one key are never both pending.
\* Of two calls in flight only one holds a source's row, so a call that has
\* inserted a key while the other was in flight has rolled back before the
\* other inserts it, and a call that comes to a source after the other
\* committed finds the other's File rows in existing_map.
C25_NeverBothPending ==
  (runs # NoRuns) =>
    \A t, u \in Threads :
      (t # u /\ runs[t].pc \in {"running", "committed"}
             /\ runs[u].pc \in {"running", "committed"}) =>
        runs[t].attempted \cap runs[u].attempted = {}

\* the steps of a call in flight and the whole call agree: what a call that
\* committed has inserted is what the store got
C25_CommitIsTheCall ==
  (runs # NoRuns) =>
    \A t \in Threads :
      runs[t].pc = "committed" =>
        \A key \in runs[t].attempted :
          \E r \in db.source_files : r.source_id = key[1] /\ r.rel_path = key[2]

\* the counters of one run add up
StatsAddUp(stats, dry_run) ==
  /\ stats.files_seen = stats.files_new + stats.files_changed + stats.files_unchanged
  /\ stats.docs_ingested = stats.files_ingested
  /\ stats.docs_ingested + stats.docs_skipped <= stats.files_new + stats.files_changed
  /\ stats.sources_scanned = stats.sources_total
  /\ dry_run =>
       /\ stats.files_ingested = 0
       /\ stats.docs_ingested = 0
       /\ stats.docs_skipped = 0

\* C26: in the stats of every run that completed, those returned and those
\* stored: files_seen = files_new + files_changed + files_unchanged,
\* docs_ingested = files_ingested, docs_ingested + docs_skipped <=
\* files_new + files_changed, sources_scanned = sources_total, and after a
\* dry run files_ingested = docs_ingested = docs_skipped = 0.
C26_StatsAddUp ==
  /\ Returned => StatsAddUp(last_call.stats, last_call.dry_run)
  /\ \A i \in DOMAIN db.ingest_runs : StatsAddUp(db.ingest_runs[i].stats, FALSE)

\* C26's case: a live run that saw new or changed files next to unchanged
\* ones, ingested one and did not ingest another (the cap was reached, or
\* the file could not be read)
C26_Witness ==
  /\ Returned /\ ~last_call.dry_run
  /\ last_call.stats.files_unchanged > 0
  /\ last_call.stats.docs_ingested > 0
  /\ last_call.stats.docs_ingested + last_call.stats.docs_skipped
       < last_call.stats.files_new + last_call.stats.files_changed

\* ... a live run whose changed file had the body its document has
C26_WitnessSkipped ==
  /\ Returned /\ ~last_call.dry_run
  /\ last_call.stats.docs_skipped > 0

\* ... and a dry run that saw new or changed files
C26_WitnessDry ==
  /\ Returned /\ last_call.dry_run
  /\ last_call.stats.files_new + last_call.stats.files_changed > 0

\* the File rows the latest call found marked deleted whose file is on disk
\* again
Reappeared == {r \in before.source_files : r.status = "deleted" /\ Visible(r)}

\* C27: a call that finds the file of a soft-deleted File row on disk again
\* (and no file that fails) returns, and leaves one File row for the row's
\* (source, relative path), with status seen.
C27_ReappearedFileHandled ==
  (Called /\ last_call.campaign_id \in before.campaigns /\ NothingFails) =>
    \A r \in Reappeared :
      /\ last_call.raised = ""
      /\ Cardinality(FileRowsAt(r.source_id, r.rel_path)) = 1
      /\ \A r2 \in FileRowsAt(r.source_id, r.rel_path) : r2.status = "seen"

\* what the code does: the deleted row is left out of existing_map (line
\* 192), the file counts as new, the INSERT of lines 299-315 meets the row's
\* unique key, and the error ends the call; the store is rolled back, the
\* row stays deleted, and so does every later call while the file is there
C27_ReappearedFileAborts ==
  (Called /\ last_call.campaign_id \in before.campaigns /\ NothingFails
     /\ Reappeared # {}) =>
    /\ last_call.raised = "IntegrityError"
    /\ db = before
    /\ \A r \in Reappeared : FileRowNow(r).status = "deleted"

\* a call found a soft-deleted file on disk again
C27_Scenario ==
  /\ Called /\ last_call.campaign_id \in before.campaigns /\ NothingFails
  /\ Reappeared # {}

\* the File rows the latest call found seen whose file is on disk, below a
\* root that exists, but cannot be stat'ed
StatFails(r) ==
  /\ r.status = "seen"
  /\ fs[r.source_id].root
  /\ DiskFile(r).present
  /\ ~DiskFile(r).stat_ok

\* C28: a call that returns marks a File deleted only if its path is absent
\* from the tree it walked: a seen File whose file is on disk but cannot be
\* stat'ed stays seen, and files_deleted counts the seen Files whose path has
\* vanished and no other.
C28_DeletedOnlyIfAbsent ==
  Returned =>
    /\ \A r \in before.source_files :
         (r.status = "seen" /\ FileRowNow(r).status = "deleted") => Vanished(r)
    /\ \A r \in before.source_files : StatFails(r) => FileRowNow(r).status = "seen"
    /\ last_call.stats.files_deleted =
         Cardinality({r \in before.source_files : r.status = "seen" /\ Vanished(r)})

\* what the code does: a file whose stat fails is skipped before it is put
\* into seen_paths (lines 264-270), so the sweep of lines 410-425 takes it
\* for missing. A call that returns counts in files_deleted the seen Files
\* that vanished and those whose stat fails, and a live one marks them all
\* deleted with an audit row "missing_on_disk"; the stat error is reported.
C28_StatFailureDeletes ==
  Returned =>
    /\ last_call.stats.files_deleted =
         Cardinality({r \in before.source_files :
                        r.status = "seen" /\ (Vanished(r) \/ StatFails(r))})
    /\ \A r \in before.source_files :
         StatFails(r) =>
           /\ ErrorsAbout(r.rel_path) # {}
           /\ ~last_call.dry_run =>
                /\ FileRowNow(r).status = "deleted"
                /\ \E a \in AuditRows(r) :
                     a.action = "delete" /\ a.reason = "missing_on_disk"
           /\ last_call.dry_run => FileRowNow(r).status = "seen"

\* a live call returned after the stat of a seen File's file failed
C28_Scenario ==
  /\ Returned /\ ~last_call.dry_run
  /\ \E r \in before.source_files : StatFails(r) /\ DocsOfFile(before, r) # {}

\* the File rows the latest call found with a failed ingest whose file is
\* on disk
FailedBefore ==
  {r \in before.source_files :
     r.status = "seen" /\ r.last_ingest_status = "error" /\ Visible(r)}

\* C29: a live call without cap that returns, made when no file fails any
\* more, ingests every File whose ingest had failed, also when the file is
\* as the failed run recorded it: the File has a document and the ingest
\* outcome ok afterwards.
C29_FailedIngestRetried ==
  (Returned /\ ~last_call.dry_run /\ last_call.max_files = {} /\ NothingFails) =>
    \A r \in FailedBefore :
      /\ FileRowNow(r).last_ingest_status = "ok"
      /\ DocsOfFile(db, FileRowNow(r)) # {}

\* what the code does: the failed run has stored the file's size and mtime
\* in the File row (lines 299-333) before the ingest was tried, and the next
\* run looks at size, mtime and hash only, never at last_ingest_status: a
\* file that is as the row says is unchanged and is not read again. The File
\* keeps the outcome error, its error text, and has the documents it had.
C29_FailedStaysFailed ==
  Returned =>
    \A r \in FailedBefore :
      ~MetaDiffers(r) =>
        /\ FileRowNow(r).last_ingest_status = "error"
        /\ FileRowNow(r).error = r.error
        /\ DocsOfFile(db, FileRowNow(r)) = DocsOfFile(before, r)
        /\ last_call.stats.files_unchanged > 0

\* a live call without cap returned, when the file whose ingest had failed
\* can be read again and is unchanged
C29_Scenario ==
  /\ Returned /\ ~last_call.dry_run /\ last_call.max_files = {} /\ NothingFails
  /\ \E r \in FailedBefore : ~MetaDiffers(r) /\ DocsOfFile(before, r) = {}

\* the (source, relative path) of the File row with the id
KeyOfFile(d, source_file_id) ==
  LET r == CHOOSE r \in d.source_files : r.id = source_file_id
  IN <<r.source_id, r.rel_path>>

\* what database d holds, told by path and not by row id: the documents,
\* the chunks, and the ingest outcome of every File
DocFacts(d) ==
  {<<KeyOfFile(d, doc.source_file_id), doc.title, doc.doc_type, doc.body_md,
     doc.content_hash>> : doc \in d.kb_documents}

ChunkFacts(d) ==
  {<<KeyOfFile(d, (CHOOSE doc \in d.kb_documents : doc.id = ch.document_id).source_file_id),
     ch.chunk_index, ch.content>> : ch \in d.kb_chunks}

OutcomeFacts(d) ==
  {<<r.source_id, r.rel_path, r.last_ingest_status>> : r \in d.source_files}

\* a live call after the dry call left what the live call alone left
SameAfterDry(dry, alone, after) ==
  (dry.raised = "" /\ alone.raised = "") =>
    /\ after.raised = ""
    /\ DocFacts(after.db) = DocFacts(alone.db)
    /\ ChunkFacts(after.db) = ChunkFacts(alone.db)
    /\ OutcomeFacts(after.db) = OutcomeFacts(alone.db)

\* the dry call with the live call after it, and the live call alone
DryThenLive(dry, force_rehash, max_files, order, walks) ==
  SameAfterDry(
    dry,
    update_campaign_kb(db, fs, Campaign, FALSE, force_rehash, max_files, order, walks),
    update_campaign_kb(dry.db, fs, Campaign, FALSE, force_rehash, max_files, order, walks))

\* C30: from every state a call is made from, a dry call followed by a live
\* call (same other arguments, source order and walks) leaves the documents,
\* the chunks and the Files' ingest outcomes that the live call alone
\* leaves: what the dry call reported as new or changed is ingested.
C30_DryRunIsTransparent ==
  calls < MaxCalls =>
    \A walks \in WalkChoices(fs), order \in SourceOrders(db, Campaign),
       force_rehash \in BOOLEAN, max_files \in MaxFilesValues :
      DryThenLive(
        update_campaign_kb(db, fs, Campaign, TRUE, force_rehash, max_files, order, walks),
        force_rehash, max_files, order, walks)

\* what the live call makes of the store db
LiveFindsNothing(live) ==
  live.raised = "" =>
    /\ live.stats.files_new = 0
    /\ live.stats.files_changed = 0
    /\ live.stats.docs_ingested = 0
    /\ live.stats.docs_skipped = 0
    /\ live.db.kb_documents = db.kb_documents
    /\ live.db.kb_chunks = db.kb_chunks

\* what the code does: the dry call has stored size, mtime and sha256 of
\* every file it saw in the File rows (lines 299-333 are not guarded by
\* dry_run), so the live call that follows over the same files finds
\* nothing new and nothing changed and ingests nothing, whatever the dry
\* call reported
C30_DryRunMasksChanges ==
  (Returned /\ last_call.dry_run /\ calls < MaxCalls) =>
    \A walks \in WalkChoices(fs), order \in SourceOrders(db, Campaign),
       force_rehash \in BOOLEAN, max_files \in MaxFilesValues :
      LiveFindsNothing(
        update_campaign_kb(db, fs, Campaign, FALSE, force_rehash, max_files, order, walks))

\* a dry call reported new or changed files, and a live call can follow
C30_Scenario ==
  /\ Returned /\ last_call.dry_run /\ calls < MaxCalls
  /\ last_call.stats.files_new + last_call.stats.files_changed > 0
=============================================================================
